---- MODULE Spec2Model ----
(***************************************************************************)
(* Model of iota.go: the Stardust virtual machine (transaction validation  *)
(* pipeline and the Account / Foundry / NFT state transition validation    *)
(* functions, Spec), the transaction builder (BuilderSpec), the account    *)
(* output builder (AccountBuilderSpec), the work scores and the restricted *)
(* addresses (CallSpec), the alias registry of the account identifiers     *)
(* (AliasSpec) and the feature lists (FeaturesSpec).                       *)
(***************************************************************************)
EXTENDS Integers, Sequences, FiniteSets, TLC

VARIABLES tx, overrideFuncs, pc, op, target, ran, err, builder, built,
          call, returned, accountIDAliases, featureList, featureCall,
          accountBuilder, blockIssuerTransition, stakingTransition,
          accountBuilt

vars ==
    <<tx, overrideFuncs, pc, op, target, ran, err, builder, built, call,
      returned, accountIDAliases, featureList, featureCall, accountBuilder,
      blockIssuerTransition, stakingTransition, accountBuilt>>

(***************************************************************************)
(* Bounds of the model.                                                    *)
(***************************************************************************)
MaxChanges == 2
MaxFoundries == 2
MaxSerial == 3
MaxFoundryCounter == 2

(***************************************************************************)
(* Fixed-width integers.  A uint32 is held as two 16-bit limbs <<hi, lo>>, *)
(* so that the values next to 2^32 - 1 are representable.                  *)
(***************************************************************************)
Limb == 2 ^ 16

Uint32(hi, lo) == <<hi, lo>>

MaxUint32 == Uint32(Limb - 1, Limb - 1)

\* x + 1 in uint32 arithmetic (wraps to 0 after MaxUint32).
Uint32Inc(x) ==
    IF x[2] < Limb - 1
    THEN Uint32(x[1], x[2] + 1)
    ELSE Uint32((x[1] + 1) % Limb, 0)

(***************************************************************************)
(* Errors.  An error value carries the sentinel it wraps and the rule that *)
(* produced it.                                                            *)
(***************************************************************************)
Err(kind, why) == [Kind |-> kind, Why |-> why]

NoError == Err("nil", "")

Panic(why) == Err("panic", why)

ErrInvalidAccountStateTransition == "ErrInvalidAccountStateTransition"

ErrInvalidAccountGovernanceTransition == "ErrInvalidAccountGovernanceTransition"

ErrInvalidBlockIssuerTransition == "ErrInvalidBlockIssuerTransition"

ErrInvalidFoundryStateTransition == "ErrInvalidFoundryStateTransition"

ErrInvalidFeatureTransition == "ErrInvalidFeatureTransition"

(***************************************************************************)
(* Features.                                                               *)
(***************************************************************************)
FeatureSender == 0

FeatureIssuer == 1

FeatureMetadata == 2

FeatureStateMetadata == 3

FeatureTag == 4

FeatureNativeToken == 5

FeatureBlockIssuer == 6

FeatureStaking == 7

SenderFeature(addr) == [Type |-> FeatureSender, Address |-> addr]

IssuerFeature(addr) == [Type |-> FeatureIssuer, Address |-> addr]

MetadataFeature(data) == [Type |-> FeatureMetadata, Data |-> data]

BlockIssuerFeature(expiry) == [Type |-> FeatureBlockIssuer, ExpirySlot |-> expiry]

StakingFeature(amount) == [Type |-> FeatureStaking, StakedAmount |-> amount]

\* Feature.Equal: same concrete type and same content.
FeatureEqual(a, b) == a.Type = b.Type /\ a = b

\* Features.Equal: same length and pairwise equal, position by position.
FeaturesEqual(f, other) ==
    IF Len(f) # Len(other)
    THEN FALSE
    ELSE \A idx \in 1..Len(f) : FeatureEqual(f[idx], other[idx])

\* Features.Set fails when a FeatureType occurs more than once.
NonUniqueFeatures(f) ==
    \E i \in 1..Len(f) : \E j \in 1..Len(f) : i < j /\ f[i].Type = f[j].Type

\* Features.Set / Features.MustSet: the map from FeatureType to Feature.
\* MustSet panics when NonUniqueFeatures holds; callers test that first.
MustSet(f) ==
    [t \in {f[i].Type : i \in 1..Len(f)} |->
        f[CHOOSE i \in 1..Len(f) : f[i].Type = t]]

\* FeatureSet.BlockIssuer: the feature or nil.
Nil == [Type |-> -1]

BlockIssuer(set) ==
    IF FeatureBlockIssuer \in DOMAIN set THEN set[FeatureBlockIssuer] ELSE Nil

Issuer(set) ==
    IF FeatureIssuer \in DOMAIN set THEN set[FeatureIssuer] ELSE Nil

\* FeatureUnchanged that lets a feature appear on the output side.
FeatureUnchangedOrAdded(featType, inFeatSet, outFeatSet) ==
    LET inHas == featType \in DOMAIN inFeatSet
        outHas == featType \in DOMAIN outFeatSet
    IN  IF ~outHas /\ inHas
        THEN Err(ErrInvalidFeatureTransition, "in current state but not in next")
        ELSE IF ~inHas
        THEN NoError
        ELSE IF ~FeatureEqual(inFeatSet[featType], outFeatSet[featType])
        THEN Err(ErrInvalidFeatureTransition, "changed")
        ELSE NoError

\* FeatureUnchanged: the feature of the given type exists on both sides and
\* is equal, or on neither side.
FeatureUnchanged(featType, inFeatSet, outFeatSet) ==
    LET inHas == featType \in DOMAIN inFeatSet
        outHas == featType \in DOMAIN outFeatSet
    IN  IF outHas /\ ~inHas
        THEN Err(ErrInvalidFeatureTransition, "in next state but not in previous")
        ELSE IF ~outHas /\ inHas
        THEN Err(ErrInvalidFeatureTransition, "in current state but not in next")
        ELSE IF ~inHas
        THEN NoError
        ELSE IF ~FeatureEqual(inFeatSet[featType], outFeatSet[featType])
        THEN Err(ErrInvalidFeatureTransition, "changed")
        ELSE NoError

(***************************************************************************)
(* Identifiers.                                                            *)
(***************************************************************************)
EmptyAccountID == "0"

EmptyNFTID == "0"

\* AccountID.Empty
Empty(id) == id = EmptyAccountID

\* AccountIDFromOutputID: the blake2b hash of the output id.
AccountIDFromOutputID(outputID) == "blake2b(" \o outputID \o ")"

\* AccountID.Matches
Matches(a, other) == a = other

AccountChainID(id) == [Kind |-> "Account", ID |-> id]

NFTChainID(id) == [Kind |-> "NFT", ID |-> id]

\* FoundryOutput.ID: account address, serial number and token scheme type.
FoundryID(f) ==
    [Kind |-> "Foundry", Account |-> f.Account,
     SerialNumber |-> f.SerialNumber, TokenSchemeType |-> f.TokenScheme.Type]

\* The identifier of the i-th output created by the transaction.
NewOutputID(i) == "out" \o ToString(i)

\* ChainOutput.Chain, with the identifier of a fresh chain derived from the
\* id of the output that carries it.
ChainIDOf(o, outputID) ==
    CASE o.Type = "Account" ->
            AccountChainID(IF Empty(o.AccountID)
                           THEN AccountIDFromOutputID(outputID)
                           ELSE o.AccountID)
      [] o.Type = "NFT" ->
            NFTChainID(IF o.NFTID = EmptyNFTID
                       THEN AccountIDFromOutputID(outputID)
                       ELSE o.NFTID)
      [] o.Type = "Foundry" -> FoundryID(o)

IsChainOutput(o) == o.Type \in {"Account", "NFT", "Foundry"}

NoOutput == [Type |-> "nil"]

(***************************************************************************)
(* Working set of a validation run.                                        *)
(***************************************************************************)
\* WorkingSet.InChains: the consumed chain outputs, keyed by chain id.
InChains(t) ==
    LET idx == {i \in 1..Len(t.Inputs) : IsChainOutput(t.Inputs[i].Output)}
        ids == {ChainIDOf(t.Inputs[i].Output, t.Inputs[i].OutputID) : i \in idx}
    IN  [c \in ids |->
            t.Inputs[CHOOSE i \in idx :
                /\ ChainIDOf(t.Inputs[i].Output, t.Inputs[i].OutputID) = c
                /\ \A j \in idx :
                     ChainIDOf(t.Inputs[j].Output, t.Inputs[j].OutputID) = c
                        => j <= i]]

\* WorkingSet.OutChains: the created chain outputs, keyed by chain id; a later
\* output with the same chain id replaces an earlier one.
OutChains(t) ==
    LET idx == {i \in 1..Len(t.Outputs) : IsChainOutput(t.Outputs[i])}
        ids == {ChainIDOf(t.Outputs[i], NewOutputID(i)) : i \in idx}
    IN  [c \in ids |->
            t.Outputs[CHOOSE i \in idx :
                /\ ChainIDOf(t.Outputs[i], NewOutputID(i)) = c
                /\ \A j \in idx :
                     ChainIDOf(t.Outputs[j], NewOutputID(j)) = c => j <= i]]

\* WorkingSet.OutputsByType
OutputsByType(t, type) == SelectSeq(t.Outputs, LAMBDA o : o.Type = type)

\* NativeTokenSum.ValueOrBigInt0
ValueOrBigInt0(sums, id) == IF id \in DOMAIN sums THEN sums[id] ELSE 0

\* Allotments.Get
AllotmentsGet(allotments, id) ==
    IF id \in DOMAIN allotments THEN allotments[id] ELSE 0

(***************************************************************************)
(* Protocol parameters and mana.                                           *)
(***************************************************************************)
LivenessThreshold == 2

SlotsPerEpochExponent == 1

ManaDecayFactor == 1

ManaDecayFactorsExponent == 1

ManaGenerationRate == 1

ManaGenerationRateExponent == 0

EpochOf(slot) == slot \div (2 ^ SlotsPerEpochExponent)

RECURSIVE DecayEpochs(_, _)
DecayEpochs(value, n) ==
    IF n <= 0
    THEN value
    ELSE DecayEpochs((value * ManaDecayFactor) \div (2 ^ ManaDecayFactorsExponent), n - 1)

\* ManaDecayProvider.StoredManaWithDecay
StoredManaWithDecay(mana, from, to) ==
    DecayEpochs(mana, EpochOf(to) - EpochOf(from))

\* ManaDecayProvider.PotentialManaWithDecay
PotentialManaWithDecay(amount, from, to) ==
    IF to <= from
    THEN 0
    ELSE (amount * ManaGenerationRate * (to - from)) \div (2 ^ ManaGenerationRateExponent)

StoredMana(o) == IF "Mana" \in DOMAIN o THEN o.Mana ELSE 0

Deposit(o) == IF "Amount" \in DOMAIN o THEN o.Amount ELSE 0

\* vm.TotalManaIn: stored mana decayed to the creation slot plus the potential
\* mana generated by the deposit, over all inputs.
RECURSIVE TotalManaIn(_, _)
TotalManaIn(creationTime, inputs) ==
    IF inputs = <<>>
    THEN 0
    ELSE LET in == Head(inputs)
         IN  StoredManaWithDecay(StoredMana(in.Output), in.CreationTime, creationTime)
             + PotentialManaWithDecay(Deposit(in.Output), in.CreationTime, creationTime)
             + TotalManaIn(creationTime, Tail(inputs))

RECURSIVE SumStoredMana(_)
SumStoredMana(outputs) ==
    IF outputs = <<>>
    THEN 0
    ELSE StoredMana(Head(outputs)) + SumStoredMana(Tail(outputs))

RECURSIVE SumAllotments(_, _)
SumAllotments(allotments, D) ==
    IF D = {}
    THEN 0
    ELSE LET d == CHOOSE x \in D : TRUE
         IN  allotments[d] + SumAllotments(allotments, D \ {d})

\* vm.TotalManaOut: stored mana of all outputs plus all allotments.
TotalManaOut(outputs, allotments) ==
    SumStoredMana(outputs) + SumAllotments(allotments, DOMAIN allotments)

\* UnlockConditionSet.HasManalockCondition: time-locked until at least the
\* given slot and address-locked to the account.
HasManalockCondition(o, accountID, slot) ==
    /\ o.Timelock >= slot
    /\ o.Address = AccountChainID(accountID)

(***************************************************************************)
(* Account state transition validation.                                    *)
(***************************************************************************)
ChainTransitionTypeGenesis == "Genesis"

ChainTransitionTypeStateChange == "StateChange"

ChainTransitionTypeDestroy == "Destroy"

\* vm.IsIssuerOnOutputUnlocked: an issuer feature among the immutable features
\* must name an identity that is already unlocked.
IsIssuerOnOutputUnlocked(output, unlockedIdents) ==
    IF NonUniqueFeatures(output.ImmutableFeatures)
    THEN Panic("non unique features")
    ELSE LET issuerFeat == Issuer(MustSet(output.ImmutableFeatures))
         IN  IF issuerFeat = Nil
             THEN NoError
             ELSE IF issuerFeat.Address \notin unlockedIdents
             THEN Err("ErrIssuerFeatureNotUnlocked", "issuer not unlocked")
             ELSE NoError

accountGenesisValid(current, t) ==
    IF ~Empty(current.AccountID)
    THEN Err(ErrInvalidAccountStateTransition, "AccountOutput's ID is not zeroed even though it is new")
    ELSE IF NonUniqueFeatures(current.Features)
    THEN Panic("non unique features")
    ELSE LET nextBIFeat == BlockIssuer(MustSet(current.Features))
         IN  IF /\ nextBIFeat # Nil
                /\ nextBIFeat.ExpirySlot # 0
                /\ nextBIFeat.ExpirySlot < t.CreationTime + LivenessThreshold
             THEN Err(ErrInvalidBlockIssuerTransition, "block issuer feature expiry set too soon")
             ELSE IsIssuerOnOutputUnlocked(current, t.UnlockedIdents)

\* The mana that may not leave a block issuer account (the tail of
\* accountBlockIssuerSTVF).
RECURSIVE LockedMana(_, _, _)
LockedMana(outputs, accountID, slot) ==
    IF outputs = <<>>
    THEN 0
    ELSE (IF HasManalockCondition(Head(outputs), accountID, slot)
          THEN StoredMana(Head(outputs))
          ELSE 0) + LockedMana(Tail(outputs), accountID, slot)

accountBlockIssuerSTVF(input, next, t) ==
    LET current == input.Output
    IN
    IF NonUniqueFeatures(current.Features) \/ NonUniqueFeatures(next.Features)
    THEN Panic("non unique features")
    ELSE
    LET currentBIFeat == BlockIssuer(MustSet(current.Features))
        nextBIFeat == BlockIssuer(MustSet(next.Features))
        txSlotIndex == t.CreationTime
        manaIn == TotalManaIn(t.CreationTime, t.Inputs)
                    - StoredManaWithDecay(current.Mana, input.CreationTime, t.CreationTime)
                    - PotentialManaWithDecay(current.Amount, input.CreationTime, t.CreationTime)
        manaOut == TotalManaOut(t.Outputs, t.Allotments)
                    - next.Mana
                    - AllotmentsGet(t.Allotments, current.AccountID)
                    - LockedMana(OutputsByType(t, "Basic"), current.AccountID,
                                 txSlotIndex + LivenessThreshold)
                    - LockedMana(OutputsByType(t, "NFT"), current.AccountID,
                                 txSlotIndex + LivenessThreshold)
    IN
    IF currentBIFeat = Nil /\ nextBIFeat = Nil
    THEN NoError
    ELSE IF current.AccountID \notin DOMAIN t.BIC
    THEN Err(ErrInvalidBlockIssuerTransition, "no BIC provided for block issuer")
    ELSE IF t.BIC[current.AccountID] < 0
    THEN Err(ErrInvalidBlockIssuerTransition, "negative block issuer credit")
    ELSE IF currentBIFeat = Nil
    THEN Panic("nil pointer dereference: currentBIFeat.ExpirySlot")
    ELSE IF /\ currentBIFeat.ExpirySlot >= txSlotIndex
            /\ nextBIFeat = Nil
    THEN Err(ErrInvalidBlockIssuerTransition, "cannot remove block issuer feature until it expires")
    ELSE IF /\ currentBIFeat.ExpirySlot >= txSlotIndex
            /\ nextBIFeat.ExpirySlot # 0
            /\ nextBIFeat.ExpirySlot # currentBIFeat.ExpirySlot
            /\ nextBIFeat.ExpirySlot < txSlotIndex + LivenessThreshold
    THEN Err(ErrInvalidBlockIssuerTransition, "block issuer feature expiry set too soon")
    ELSE IF /\ currentBIFeat.ExpirySlot < txSlotIndex
            /\ nextBIFeat # Nil
            /\ nextBIFeat.ExpirySlot # 0
            /\ nextBIFeat.ExpirySlot < txSlotIndex + LivenessThreshold
    THEN Err(ErrInvalidBlockIssuerTransition, "block issuer feature expiry set too soon")
    ELSE IF manaIn > manaOut
    THEN Err(ErrInvalidBlockIssuerTransition, "cannot move Mana off an account")
    ELSE NoError

\* accountGovernanceSTVF without the comparison of the state metadata.
accountGovernanceSTVFNoStateMetadata(current, next) ==
    IF current.Amount # next.Amount
    THEN Err(ErrInvalidAccountGovernanceTransition, "amount changed")
    ELSE IF current.NativeTokens # next.NativeTokens
    THEN Err(ErrInvalidAccountGovernanceTransition, "native tokens changed")
    ELSE IF current.StateIndex # next.StateIndex
    THEN Err(ErrInvalidAccountGovernanceTransition, "state index changed")
    ELSE IF current.FoundryCounter # next.FoundryCounter
    THEN Err(ErrInvalidAccountGovernanceTransition, "foundry counter changed")
    ELSE NoError

accountGovernanceSTVF(current, next) ==
    IF current.Amount # next.Amount
    THEN Err(ErrInvalidAccountGovernanceTransition, "amount changed")
    ELSE IF current.NativeTokens # next.NativeTokens
    THEN Err(ErrInvalidAccountGovernanceTransition, "native tokens changed")
    ELSE IF current.StateIndex # next.StateIndex
    THEN Err(ErrInvalidAccountGovernanceTransition, "state index changed")
    ELSE IF current.StateMetadata # next.StateMetadata
    THEN Err(ErrInvalidAccountGovernanceTransition, "state metadata changed")
    ELSE IF current.FoundryCounter # next.FoundryCounter
    THEN Err(ErrInvalidAccountGovernanceTransition, "foundry counter changed")
    ELSE NoError

\* The count of the foundries of the account that does not skip the foundries
\* that existed before the transaction.
RECURSIVE seenFoundriesOfAccount(_, _, _)
seenFoundriesOfAccount(outputs, t, accountID) ==
    IF outputs = <<>>
    THEN 0
    ELSE LET output == Head(outputs)
             rest == seenFoundriesOfAccount(Tail(outputs), t, accountID)
         IN  IF output.Type # "Foundry"
             THEN rest
             ELSE IF ~Matches(output.Account, accountID)
             THEN rest
             ELSE rest + 1

\* The number of foundry outputs of the transaction that are new and anchored
\* to the account (the loop of accountStateSTVF).
RECURSIVE seenNewFoundriesOfAccount(_, _, _)
seenNewFoundriesOfAccount(outputs, t, accountID) ==
    IF outputs = <<>>
    THEN 0
    ELSE LET output == Head(outputs)
             rest == seenNewFoundriesOfAccount(Tail(outputs), t, accountID)
         IN  IF output.Type # "Foundry"
             THEN rest
             ELSE IF FoundryID(output) \in DOMAIN InChains(t)
             THEN rest
             ELSE IF ~Matches(output.Account, accountID)
             THEN rest
             ELSE rest + 1

accountStateSTVF(input, next, t) ==
    LET current == input.Output
    IN
    IF current.StateController # next.StateController
    THEN Err(ErrInvalidAccountStateTransition, "state controller changed")
    ELSE IF current.Governor # next.Governor
    THEN Err(ErrInvalidAccountStateTransition, "governance controller changed")
    ELSE IF current.FoundryCounter > next.FoundryCounter
    THEN Err(ErrInvalidAccountStateTransition, "foundry counter of next state is less than previous")
    ELSE IF Uint32Inc(current.StateIndex) # next.StateIndex
    THEN Err(ErrInvalidAccountStateTransition, "state index")
    ELSE IF NonUniqueFeatures(current.Features) \/ NonUniqueFeatures(next.Features)
    THEN Panic("non unique features")
    ELSE IF FeatureUnchanged(FeatureMetadata, MustSet(current.Features),
                             MustSet(next.Features)) # NoError
    THEN Err(ErrInvalidAccountStateTransition, "metadata feature changed")
    ELSE IF current.FoundryCounter = next.FoundryCounter
    THEN accountBlockIssuerSTVF(input, next, t)
    ELSE LET seen == seenNewFoundriesOfAccount(t.Outputs, t, next.AccountID)
             expectedNewFoundriesCount ==
                 next.FoundryCounter - current.FoundryCounter
         IN  IF expectedNewFoundriesCount # seen
             THEN Err(ErrInvalidAccountStateTransition, "new foundries count")
             ELSE accountBlockIssuerSTVF(input, next, t)

\* accountStateChangeValid with the immutable features compared after the
\* rules of the branch.
accountStateChangeValidLate(input, t, next) ==
    LET current == input.Output
        branch == IF current.StateIndex = next.StateIndex
                  THEN accountGovernanceSTVF(current, next)
                  ELSE accountStateSTVF(input, next, t)
    IN  IF branch # NoError
        THEN branch
        ELSE IF ~FeaturesEqual(current.ImmutableFeatures, next.ImmutableFeatures)
        THEN Err(ErrInvalidAccountStateTransition, "immutable features changed")
        ELSE NoError

accountStateChangeValid(input, t, next) ==
    LET current == input.Output
    IN  IF ~FeaturesEqual(current.ImmutableFeatures, next.ImmutableFeatures)
        THEN Err(ErrInvalidAccountStateTransition, "immutable features changed")
        ELSE IF current.StateIndex = next.StateIndex
        THEN accountGovernanceSTVF(current, next)
        ELSE accountStateSTVF(input, next, t)

\* accountDestructionValid that lets the account go in the slot in which the
\* block issuer feature expires.
accountDestructionValidAtExpiry(input, t) ==
    LET outputToDestroy == input.Output
    IN
    IF NonUniqueFeatures(outputToDestroy.Features)
    THEN Panic("non unique features")
    ELSE
    LET BIFeat == BlockIssuer(MustSet(outputToDestroy.Features))
    IN  IF BIFeat = Nil
        THEN NoError
        ELSE IF BIFeat.ExpirySlot = 0 \/ BIFeat.ExpirySlot > t.CreationTime
        THEN Err(ErrInvalidBlockIssuerTransition, "cannot destroy output until the block issuer feature expires")
        ELSE IF outputToDestroy.AccountID \notin DOMAIN t.BIC
        THEN Err(ErrInvalidBlockIssuerTransition, "no BIC provided for block issuer")
        ELSE IF t.BIC[outputToDestroy.AccountID] < 0
        THEN Err(ErrInvalidBlockIssuerTransition, "negative block issuer credit")
        ELSE NoError

accountDestructionValid(input, t) ==
    LET outputToDestroy == input.Output
    IN
    IF NonUniqueFeatures(outputToDestroy.Features)
    THEN Panic("non unique features")
    ELSE
    LET BIFeat == BlockIssuer(MustSet(outputToDestroy.Features))
    IN  IF BIFeat = Nil
        THEN NoError
        ELSE IF BIFeat.ExpirySlot = 0 \/ BIFeat.ExpirySlot >= t.CreationTime
        THEN Err(ErrInvalidBlockIssuerTransition, "cannot destroy output until the block issuer feature expires")
        ELSE IF outputToDestroy.AccountID \notin DOMAIN t.BIC
        THEN Err(ErrInvalidBlockIssuerTransition, "no BIC provided for block issuer")
        ELSE IF t.BIC[outputToDestroy.AccountID] < 0
        THEN Err(ErrInvalidBlockIssuerTransition, "negative block issuer credit")
        ELSE NoError

accountSTVF(input, transType, next, t) ==
    CASE transType = ChainTransitionTypeGenesis -> accountGenesisValid(next, t)
      [] transType = ChainTransitionTypeStateChange -> accountStateChangeValid(input, t, next)
      [] transType = ChainTransitionTypeDestroy -> accountDestructionValid(input, t)
      [] OTHER -> Panic("unknown chain transition type in AccountOutput")

(***************************************************************************)
(* NFT state transition validation.                                        *)
(***************************************************************************)
nftGenesisValid(current, t) ==
    IF current.NFTID # EmptyNFTID
    THEN Err("error", "NFTOutput's ID is not zeroed even though it is new")
    ELSE IsIssuerOnOutputUnlocked(current, t.UnlockedIdents)

nftStateChangeValid(current, next) ==
    IF ~FeaturesEqual(current.ImmutableFeatures, next.ImmutableFeatures)
    THEN Err("error", "immutable features changed")
    ELSE NoError

\* Errors of the NFT genesis and state change are wrapped in a
\* ChainTransitionError.
ChainTransitionError(inner) ==
    IF inner = NoError \/ inner.Kind = "panic"
    THEN inner
    ELSE Err("ChainTransitionError", inner.Why)

nftSTVF(input, transType, next, t) ==
    CASE transType = ChainTransitionTypeGenesis ->
            ChainTransitionError(nftGenesisValid(next, t))
      [] transType = ChainTransitionTypeStateChange ->
            ChainTransitionError(nftStateChangeValid(input.Output, next))
      [] transType = ChainTransitionTypeDestroy -> NoError
      [] OTHER -> Panic("unknown chain transition type in NFTOutput")

(***************************************************************************)
(* Foundry state transition validation.                                    *)
(***************************************************************************)
TokenSchemeSimple == 0

SimpleTokenScheme(minted, melted, max) ==
    [Type |-> TokenSchemeSimple, MintedTokens |-> minted,
     MeltedTokens |-> melted, MaximumSupply |-> max]

\* TokenScheme.StateTransition of the simple token scheme: the supply counters
\* must account for the difference of the native token sums.
TokenSchemeStateTransition(scheme, transType, nextState, in, out) ==
    CASE transType = ChainTransitionTypeGenesis ->
            IF scheme.MeltedTokens # 0
            THEN Err("ErrSimpleTokenSchemeTransition", "melted tokens must be zero at genesis")
            ELSE IF scheme.MintedTokens > scheme.MaximumSupply
            THEN Err("ErrSimpleTokenSchemeTransition", "minted tokens exceed the maximum supply")
            ELSE IF out # scheme.MintedTokens
            THEN Err("ErrSimpleTokenSchemeTransition", "genesis supply does not match the output sum")
            ELSE NoError
      [] transType = ChainTransitionTypeStateChange ->
            IF nextState.MaximumSupply # scheme.MaximumSupply
            THEN Err("ErrSimpleTokenSchemeTransition", "maximum supply changed")
            ELSE IF \/ nextState.MintedTokens < scheme.MintedTokens
                    \/ nextState.MeltedTokens < scheme.MeltedTokens
                    \/ nextState.MintedTokens > nextState.MaximumSupply
            THEN Err("ErrSimpleTokenSchemeTransition", "supply counters invalid")
            ELSE IF (nextState.MintedTokens - nextState.MeltedTokens)
                      - (scheme.MintedTokens - scheme.MeltedTokens) # out - in
            THEN Err("ErrSimpleTokenSchemeTransition", "supply change does not match the token sums")
            ELSE NoError
      [] transType = ChainTransitionTypeDestroy ->
            IF scheme.MintedTokens - scheme.MeltedTokens # in - out
            THEN Err("ErrSimpleTokenSchemeTransition", "outstanding supply is not melted")
            ELSE NoError

\* The ordering loop of foundrySerialNumberValid, from output position i on.
RECURSIVE serialNumberOrdered(_, _, _, _)
serialNumberOrdered(i, current, t, thisFoundryID) ==
    IF i > Len(t.Outputs)
    THEN NoError
    ELSE LET otherFoundryOutput == t.Outputs[i]
         IN  IF otherFoundryOutput.Type # "Foundry"
             THEN serialNumberOrdered(i + 1, current, t, thisFoundryID)
             ELSE IF otherFoundryOutput.Account # current.Account
             THEN serialNumberOrdered(i + 1, current, t, thisFoundryID)
             ELSE IF FoundryID(otherFoundryOutput) \in DOMAIN InChains(t)
             THEN serialNumberOrdered(i + 1, current, t, thisFoundryID)
             ELSE IF FoundryID(otherFoundryOutput) = thisFoundryID
             THEN NoError
             ELSE IF otherFoundryOutput.SerialNumber >= current.SerialNumber
             THEN Err(ErrInvalidFoundryStateTransition, "bigger equal serial number")
             ELSE serialNumberOrdered(i + 1, current, t, thisFoundryID)

\* foundrySerialNumberValid without the upper end of the interval.
foundrySerialNumberValidNoUpperEnd(current, t, inAccount, outAccount, thisFoundryID) ==
    LET startSerial == inAccount.FoundryCounter
    IN  IF startSerial >= current.SerialNumber
        THEN Err(ErrInvalidFoundryStateTransition, "serial number is not between the foundry counter interval")
        ELSE serialNumberOrdered(1, current, t, thisFoundryID)

foundrySerialNumberValid(current, t, inAccount, outAccount, thisFoundryID) ==
    LET startSerial == inAccount.FoundryCounter
        endIncSerial == outAccount.FoundryCounter
    IN  IF startSerial >= current.SerialNumber \/ current.SerialNumber > endIncSerial
        THEN Err(ErrInvalidFoundryStateTransition, "serial number is not between the foundry counter interval")
        ELSE serialNumberOrdered(1, current, t, thisFoundryID)

\* foundryGenesisValid that does not look for the anchoring account.
foundryGenesisValidNoAnchor(current, t, thisFoundryID, outSums) ==
    TokenSchemeStateTransition(current.TokenScheme, ChainTransitionTypeGenesis,
                               Nil, 0, ValueOrBigInt0(outSums, FoundryID(current)))

foundryGenesisValid(current, t, thisFoundryID, outSums) ==
    LET nativeTokenID == FoundryID(current)
        schemeErr == TokenSchemeStateTransition(current.TokenScheme,
                        ChainTransitionTypeGenesis, Nil, 0,
                        ValueOrBigInt0(outSums, nativeTokenID))
        accountID == AccountChainID(current.Account)
    IN  IF schemeErr # NoError
        THEN schemeErr
        ELSE IF accountID \notin DOMAIN InChains(t)
        THEN Err(ErrInvalidFoundryStateTransition, "missing input transitioning account output")
        ELSE IF accountID \notin DOMAIN OutChains(t)
        THEN Err(ErrInvalidFoundryStateTransition, "missing output transitioning account output")
        ELSE foundrySerialNumberValid(current, t, InChains(t)[accountID].Output,
                                      OutChains(t)[accountID], thisFoundryID)

foundryStateChangeValid(current, next, inSums, outSums) ==
    IF ~FeaturesEqual(current.ImmutableFeatures, next.ImmutableFeatures)
    THEN Err(ErrInvalidFoundryStateTransition, "immutable features changed")
    ELSE IF FoundryID(current) # FoundryID(next)
    THEN Panic("foundry IDs mismatch in state transition validation function")
    ELSE TokenSchemeStateTransition(current.TokenScheme,
            ChainTransitionTypeStateChange, next.TokenScheme,
            ValueOrBigInt0(inSums, FoundryID(current)),
            ValueOrBigInt0(outSums, FoundryID(current)))

foundryDestructionValid(current, inSums, outSums) ==
    TokenSchemeStateTransition(current.TokenScheme, ChainTransitionTypeDestroy,
        Nil, ValueOrBigInt0(inSums, FoundryID(current)),
        ValueOrBigInt0(outSums, FoundryID(current)))

foundrySTVF(input, transType, next, t) ==
    LET inSums == t.InNativeTokens
        outSums == t.OutNativeTokens
    IN  CASE transType = ChainTransitionTypeGenesis ->
                foundryGenesisValid(next, t, FoundryID(next), outSums)
          [] transType = ChainTransitionTypeStateChange ->
                foundryStateChangeValid(input.Output, next, inSums, outSums)
          [] transType = ChainTransitionTypeDestroy ->
                foundryDestructionValid(input.Output, inSums, outSums)
          [] OTHER -> Panic("unknown chain transition type in FoundryOutput")

(***************************************************************************)
(* The virtual machine.                                                    *)
(***************************************************************************)
NoInput == [OutputID |-> "", CreationTime |-> 0, Output |-> NoOutput]

\* virtualMachine.ChainSTVF
ChainSTVF(transType, input, next, t) ==
    LET transitionState ==
            IF transType # ChainTransitionTypeGenesis THEN input.Output ELSE next
    IN  CASE transitionState.Type = "Account" ->
                IF next # NoOutput /\ next.Type # "Account"
                THEN Err("error", "can only state transition to another account output")
                ELSE accountSTVF(input, transType, next, t)
          [] transitionState.Type = "Foundry" ->
                IF next # NoOutput /\ next.Type # "Foundry"
                THEN Err("error", "can only state transition to another foundry output")
                ELSE foundrySTVF(input, transType, next, t)
          [] transitionState.Type = "NFT" ->
                IF next # NoOutput /\ next.Type # "NFT"
                THEN Err("error", "can only state transition to another NFT output")
                ELSE nftSTVF(input, transType, next, t)
          [] OTHER -> Panic("invalid output type passed to Stardust virtual machine")

\* The default checks of NewVirtualMachine, in execution order.
\* The default list with the chain transitions checked after the mana balance.
execListManaFirst ==
    << "Timelocks", "InputUnlocks", "SenderUnlocked", "BalancedDeposit",
       "BalancedNativeTokens", "BalancedMana", "ChainTransitions" >>

execList ==
    << "Timelocks", "InputUnlocks", "SenderUnlocked", "BalancedDeposit",
       "BalancedNativeTokens", "ChainTransitions", "BalancedMana" >>

\* The checks that do not depend on the chain outputs report the violation
\* that the transaction carries for them.
GenericChecks ==
    {"Timelocks", "InputUnlocks", "SenderUnlocked", "BalancedDeposit",
     "BalancedNativeTokens", "BalancedMana"}

GenericExecFunc(name, t) ==
    IF name \in t.Violations THEN Err("Err" \o name, name) ELSE NoError

\* The transition type of a chain touched by the transaction.
TransitionType(t, chainID) ==
    IF chainID \notin DOMAIN InChains(t)
    THEN ChainTransitionTypeGenesis
    ELSE IF chainID \notin DOMAIN OutChains(t)
    THEN ChainTransitionTypeDestroy
    ELSE ChainTransitionTypeStateChange

TouchedChains(t) == DOMAIN InChains(t) \cup DOMAIN OutChains(t)

\* The verdict of ChainSTVF for one chain of the transaction.
ChainVerdict(t, chainID) ==
    ChainSTVF(TransitionType(t, chainID),
              IF chainID \in DOMAIN InChains(t) THEN InChains(t)[chainID] ELSE NoInput,
              IF chainID \in DOMAIN OutChains(t) THEN OutChains(t)[chainID] ELSE NoOutput,
              t)

\* vm.ExecFuncChainTransitions: every touched chain is validated; the chains
\* are visited in map order, so any failing chain may be the one reported.
ExecFuncChainTransitions(t) ==
    LET failures == {ChainVerdict(t, c) : c \in TouchedChains(t)} \ {NoError}
    IN  IF failures = {} THEN {NoError} ELSE failures

\* The possible results of one check.
ExecFunc(name, t) ==
    IF name = "ChainTransitions"
    THEN ExecFuncChainTransitions(t)
    ELSE {GenericExecFunc(name, t)}

\* vm.RunVMFuncs: the checks run in list order and the first error is
\* returned.  The result is the set of possible (checks run, error) pairs.
RECURSIVE RunVMFuncs(_, _)
RunVMFuncs(t, funcs) ==
    IF funcs = <<>>
    THEN {[ran |-> <<>>, err |-> NoError]}
    ELSE UNION {
            IF e # NoError
            THEN {[ran |-> <<Head(funcs)>>, err |-> e]}
            ELSE {[ran |-> <<Head(funcs)>> \o r.ran, err |-> r.err] :
                     r \in RunVMFuncs(t, Tail(funcs))}
            : e \in ExecFunc(Head(funcs), t)}

\* vm.NewVMParamsWorkingSet fails when an input of the essence is not among
\* the resolved inputs.
NewVMParamsWorkingSet(t) ==
    IF t.MissingInput THEN Err("ErrMissingUTXO", "utxo for input not supplied") ELSE NoError

NoTarget == [Kind |-> "none"]

(***************************************************************************)
(* The transactions handed to the virtual machine.                         *)
(***************************************************************************)
IndexSpan == 2

TxCreationTime == 3

Addresses == {"addr1", "addr2"}

AccountIDs == {"A1", "A2"}

NoNativeTokens == <<>>

SomeNativeTokens == << [ID |-> "T1", Amount |-> 1] >>

ExpirySlots ==
    {0, TxCreationTime - 1, TxCreationTime, TxCreationTime + LivenessThreshold - 1,
     TxCreationTime + LivenessThreshold}

Optional(S) == {<<>>} \cup {<<x>> : x \in S}

\* Feature lists, sorted by feature type, at most one feature per type.
FeatureLists ==
    {s \o m \o b \o k :
        s \in Optional({SenderFeature("addr1")}),
        m \in Optional({MetadataFeature(1), MetadataFeature(2)}),
        b \in Optional({BlockIssuerFeature(e) : e \in ExpirySlots}),
        k \in Optional({StakingFeature(1)})}

ImmutableLists ==
    { <<>>, <<IssuerFeature("addr1")>>,
      <<IssuerFeature("addr1"), MetadataFeature(1)>> }

AccountOutput(id, idx, fc, feats, imm) ==
    [Type |-> "Account", AccountID |-> id, Amount |-> 1, Mana |-> 0,
     NativeTokens |-> NoNativeTokens, StateIndex |-> idx, StateMetadata |-> "",
     FoundryCounter |-> fc, StateController |-> "addr1", Governor |-> "addr1",
     Features |-> feats, ImmutableFeatures |-> imm]

FoundryOutput(account, serial, scheme, imm) ==
    [Type |-> "Foundry", Account |-> account, SerialNumber |-> serial,
     Amount |-> 1, TokenScheme |-> scheme, ImmutableFeatures |-> imm]

NFTOutput(id, amount, imm) ==
    [Type |-> "NFT", NFTID |-> id, Amount |-> amount, Mana |-> 0,
     Address |-> [Kind |-> "Ed25519", ID |-> "addr1"], Timelock |-> 0,
     Features |-> <<>>, ImmutableFeatures |-> imm]

ResolvedInput(outputID, output) ==
    [OutputID |-> outputID, CreationTime |-> TxCreationTime, Output |-> output]

\* A map without entries.
EmptyMap == [x \in {} |-> 0]

NoBIC == EmptyMap

BICOf(id, credit) == [a \in {id} |-> credit]

Transaction(inputs, outputs, bic, unlocked, inSums, outSums, violations, missing) ==
    [CreationTime |-> TxCreationTime, Inputs |-> inputs, Outputs |-> outputs,
     Allotments |-> EmptyMap, BIC |-> bic, UnlockedIdents |-> unlocked,
     InNativeTokens |-> inSums, OutNativeTokens |-> outSums,
     Violations |-> violations, MissingInput |-> missing]

ChainTx(inputs, outputs, bic) ==
    Transaction(inputs, outputs, bic, {}, EmptyMap, EmptyMap, {}, FALSE)

\* The single changes a transaction may make to the consumed account: a new
\* value of one field, or a feature of one type set or removed.
FieldChange(field, value) == [Kind |-> "field", Field |-> field, Value |-> value]

FeatureChange(type, feature) == [Kind |-> "feature", Type |-> type, Value |-> feature]

AccountChanges ==
    << [Kind |-> "none"] >>
    \o [k \in 1..MaxFoundryCounter + 1 |-> FieldChange("FoundryCounter", k - 1)]
    \o [k \in 1..IndexSpan + 1 |-> FieldChange("StateIndex", Uint32(0, k - 1))]
    \o [k \in 1..IndexSpan |-> FieldChange("StateIndex", Uint32(Limb - 1, Limb - k))]
    \o << FieldChange("Amount", 2), FieldChange("Mana", 1),
          FieldChange("NativeTokens", SomeNativeTokens),
          FieldChange("StateMetadata", "m"),
          FieldChange("StateController", "addr2"),
          FieldChange("Governor", "addr2"),
          FieldChange("ImmutableFeatures", <<>>),
          FieldChange("ImmutableFeatures",
                      <<IssuerFeature("addr1"), MetadataFeature(1)>>),
          FeatureChange(FeatureSender, Nil),
          FeatureChange(FeatureSender, SenderFeature("addr1")),
          FeatureChange(FeatureMetadata, Nil),
          FeatureChange(FeatureMetadata, MetadataFeature(1)),
          FeatureChange(FeatureMetadata, MetadataFeature(2)),
          FeatureChange(FeatureBlockIssuer, Nil),
          FeatureChange(FeatureBlockIssuer, BlockIssuerFeature(0)),
          FeatureChange(FeatureBlockIssuer, BlockIssuerFeature(TxCreationTime - 1)),
          FeatureChange(FeatureBlockIssuer, BlockIssuerFeature(TxCreationTime)),
          FeatureChange(FeatureBlockIssuer,
                        BlockIssuerFeature(TxCreationTime + LivenessThreshold - 1)),
          FeatureChange(FeatureBlockIssuer,
                        BlockIssuerFeature(TxCreationTime + LivenessThreshold)),
          FeatureChange(FeatureStaking, Nil),
          FeatureChange(FeatureStaking, StakingFeature(1)) >>

\* The feature list with the feature of the given type replaced (or removed,
\* for Nil), kept sorted by type.
WithFeature(features, type, feature) ==
    LET before == SelectSeq(features, LAMBDA f : f.Type < type)
        after == SelectSeq(features, LAMBDA f : f.Type > type)
    IN  IF feature = Nil THEN before \o after ELSE before \o <<feature>> \o after

ApplyChange(acc, c) ==
    CASE c.Kind = "none" -> acc
      [] c.Kind = "field" -> [acc EXCEPT ![c.Field] = c.Value]
      [] c.Kind = "feature" ->
            [acc EXCEPT !.Features = WithFeature(@, c.Type, c.Value)]

RECURSIVE ApplyChanges(_, _, _)
ApplyChanges(acc, picks, i) ==
    IF i > MaxChanges
    THEN acc
    ELSE ApplyChanges(ApplyChange(acc, AccountChanges[picks[i]]), picks, i + 1)

\* At most MaxChanges different changes, picked in the order of
\* AccountChanges; the first entry stands for no change.
ChangePicks ==
    {picks \in [1..MaxChanges -> 1..Len(AccountChanges)] :
        \A i \in 1..MaxChanges - 1 :
            picks[i] < picks[i + 1] \/ picks[i] = 1}

BaseAccounts ==
    {AccountOutput("A1", idx, 1, feats, <<IssuerFeature("addr1")>>) :
        idx \in {Uint32(0, 0), MaxUint32},
        feats \in { <<>>, <<MetadataFeature(1)>>,
                    <<BlockIssuerFeature(0)>>,
                    <<BlockIssuerFeature(TxCreationTime - 1)>>,
                    <<SenderFeature("addr1"), MetadataFeature(1),
                      BlockIssuerFeature(TxCreationTime + LivenessThreshold),
                      StakingFeature(1)>> }}

BICs == {NoBIC, BICOf("A1", 1), BICOf("A1", 0), BICOf("A1", -1)}

\* State changes of one account.
AccountStateChangeTxs ==
    {ChainTx(<<ResolvedInput("in1", in)>>, <<ApplyChanges(in, picks, 1)>>, bic) :
        in \in BaseAccounts, picks \in ChangePicks, bic \in BICs}

\* Full state transitions of an account together with foundry outputs.
FoundryKinds ==
    {FoundryOutput(a, n, SimpleTokenScheme(0, 0, 1), <<>>) :
        a \in AccountIDs, n \in 0..MaxSerial}

RECURSIVE SeqsUpTo(_, _)
SeqsUpTo(S, n) ==
    IF n = 0
    THEN {<<>>}
    ELSE SeqsUpTo(S, n - 1) \cup
         {Append(q, x) : q \in {r \in SeqsUpTo(S, n - 1) : Len(r) = n - 1}, x \in S}

ExistingFoundries ==
    { <<>>,
      <<ResolvedInput("in2", FoundryOutput("A1", 1, SimpleTokenScheme(0, 0, 1), <<>>))>> }

FoundryGenesisTxs ==
    {ChainTx(<<ResolvedInput("in1", AccountOutput("A1", Uint32(0, 0), old, <<>>, <<>>))>> \o existing,
             <<AccountOutput("A1", Uint32(0, 1), new, <<>>, <<>>)>> \o foundries, NoBIC) :
        old \in 0..1, new \in 0..MaxFoundryCounter,
        foundries \in SeqsUpTo(FoundryKinds, MaxFoundries),
        existing \in ExistingFoundries}

\* The creation of one foundry whose token scheme may fail its genesis check.
FoundrySchemeGenesisTxs ==
    {ChainTx(<<ResolvedInput("in1", AccountOutput("A1", Uint32(0, 0), 0, <<>>, <<>>))>>,
             <<AccountOutput("A1", Uint32(0, 1), new, <<>>, <<>>),
               FoundryOutput("A1", n, SimpleTokenScheme(0, melted, 1), <<>>)>>, NoBIC) :
        new \in 0..MaxFoundryCounter, n \in 0..MaxSerial, melted \in {0, 1}}

\* The creation of one foundry whose anchoring account is consumed, created,
\* both or neither.
FoundryAnchorTxs ==
    {ChainTx(inputs, accounts \o <<FoundryOutput(anchor, 1, SimpleTokenScheme(0, melted, 1), <<>>)>>,
             NoBIC) :
        inputs \in { <<>>,
                     <<ResolvedInput("in1", AccountOutput("A1", Uint32(0, 0), 0, <<>>, <<>>))>> },
        accounts \in { <<>>,
                       <<AccountOutput("A1", Uint32(0, 1), 1, <<>>, <<>>)>>,
                       <<AccountOutput(EmptyAccountID, Uint32(0, 0), 0, <<>>, <<>>)>> },
        anchor \in {"A1", AccountIDFromOutputID(NewOutputID(1))},
        melted \in {0, 1}}

\* A Basic output with an address unlock condition and a timelock.
BasicOutput(mana, address, timelock) ==
    [Type |-> "Basic", Amount |-> 1, Mana |-> mana, Address |-> address,
     Timelock |-> timelock]

\* The outputs that may accompany the account: none, a Basic output for an
\* unrelated address, a Basic or NFT output mana-locked to account A1, and a
\* Basic output locked to A1 for too short a time.
ManaCompanions ==
    { <<>>,
      <<BasicOutput(1, [Kind |-> "Ed25519", ID |-> "addr2"], 0)>>,
      <<BasicOutput(1, AccountChainID("A1"), TxCreationTime + LivenessThreshold)>>,
      <<BasicOutput(1, AccountChainID("A1"), TxCreationTime + LivenessThreshold - 1)>>,
      <<[NFTOutput(EmptyNFTID, 1, <<>>) EXCEPT
            !.Mana = 1, !.Address = AccountChainID("A1"),
            !.Timelock = TxCreationTime + LivenessThreshold]>> }

\* Full state transitions of a block issuer account that hold, receive or
\* give away mana; the account may have been created before the transaction,
\* so that its stored mana has decayed and its deposit has generated mana.
BlockIssuerManaTxs ==
    {[ChainTx(
        <<[ResolvedInput("in1",
              [AccountOutput("A1", Uint32(0, 0), 0,
                  <<BlockIssuerFeature(TxCreationTime + LivenessThreshold)>>, <<>>)
                  EXCEPT !.Mana = manaIn])
              EXCEPT !.CreationTime = created]>> \o otherIn,
        <<[AccountOutput("A1", Uint32(0, 1), 0,
              <<BlockIssuerFeature(TxCreationTime + LivenessThreshold)>>, <<>>)
              EXCEPT !.Mana = manaOut]>> \o companions,
        BICOf("A1", 1)) EXCEPT !.Allotments = allotments] :
        manaIn \in 0..2, created \in {TxCreationTime - 2, TxCreationTime},
        otherIn \in { <<>>,
            <<ResolvedInput("in2", BasicOutput(1, [Kind |-> "Ed25519", ID |-> "addr2"], 0))>> },
        manaOut \in 0..3, companions \in ManaCompanions,
        allotments \in {EmptyMap, [a \in {"A1"} |-> 1], [a \in {"A2"} |-> 1]}}

\* State changes of an NFT and of a foundry.
NFTStateChangeTxs ==
    {ChainTx(<<ResolvedInput("in1", NFTOutput("N1", 1, immIn))>>,
             <<NFTOutput("N1", amount, immOut)>>, NoBIC) :
        immIn \in ImmutableLists, immOut \in ImmutableLists, amount \in {1, 2}}

FoundryStateChangeTxs ==
    {Transaction(
        <<ResolvedInput("in1", FoundryOutput("A1", 1, SimpleTokenScheme(mintedIn, 0, 1), immIn))>>,
        <<FoundryOutput("A1", 1, SimpleTokenScheme(mintedOut, 0, 1), immOut)>>,
        NoBIC, {}, EmptyMap, outSums, {}, FALSE) :
        immIn \in ImmutableLists, immOut \in ImmutableLists,
        mintedIn \in {0, 1}, mintedOut \in {0, 1},
        outSums \in { EmptyMap,
            [id \in {FoundryID(FoundryOutput("A1", 1, SimpleTokenScheme(0, 0, 1), <<>>))} |-> 1] }}

\* Creation and destruction of an account.
AccountGenesisTxs ==
    {Transaction(<<>>, <<AccountOutput(id, Uint32(0, 0), 0, feats, imm)>>, NoBIC, unlocked,
                 EmptyMap, EmptyMap, {}, FALSE) :
        id \in {EmptyAccountID, "A1"}, feats \in FeatureLists,
        imm \in ImmutableLists, unlocked \in {{}, {"addr1"}}}

AccountDestructionTxs ==
    {ChainTx(<<ResolvedInput("in1", AccountOutput("A1", Uint32(0, 1), 1, feats, <<>>))>>, <<>>, bic) :
        feats \in FeatureLists, bic \in BICs}

\* Transactions that violate some of the checks that do not depend on chain
\* outputs, with a governance transition that is valid or not.
PipelineTxs ==
    {Transaction(<<ResolvedInput("in1", AccountOutput("A1", Uint32(0, 0), 0, <<>>, <<>>))>>,
                 <<[AccountOutput("A1", Uint32(0, 0), 0, <<>>, <<>>) EXCEPT !.Amount = amount]>>,
                 NoBIC, {}, EmptyMap, EmptyMap, violations, missing) :
        amount \in {1, 2}, violations \in SUBSET GenericChecks, missing \in BOOLEAN}

OverrideLists ==
    { <<"ChainTransitions">>, <<"BalancedMana", "Timelocks">>,
      <<"BalancedDeposit", "ChainTransitions", "Timelocks">> }

ChainTxFamilies ==
    << AccountStateChangeTxs, FoundryGenesisTxs, NFTStateChangeTxs,
       FoundryStateChangeTxs, AccountGenesisTxs, AccountDestructionTxs,
       FoundrySchemeGenesisTxs, FoundryAnchorTxs, BlockIssuerManaTxs >>

(***************************************************************************)
(* The transaction builder (builder/transaction_builder.go).               *)
(***************************************************************************)
MaxInputs == 3

MaxOutputs == 1

\* A nil *Transaction.
NoTransaction == [Essence |-> "nil", Unlocks |-> <<>>]

Ed25519Address(id) == [Kind |-> "Ed25519", ID |-> id]

AccountAddress(id) == [Kind |-> "Account", ID |-> id]

NFTAddress(id) == [Kind |-> "NFT", ID |-> id]

\* The type assertion addr.(iotago.ChainAddress).
IsChainAddress(addr) == addr.Kind \in {"Account", "NFT"}

\* Address.Key: the serialized address, its type followed by its identifier.
Key(addr) == addr.Kind \o ":" \o addr.ID

\* ChainOutput.Chain: the chain identifier stored in the output.
Chain(o) ==
    CASE o.Type = "Account" -> AccountChainID(o.AccountID)
      [] o.Type = "NFT" -> NFTChainID(o.NFTID)
      [] o.Type = "Foundry" -> FoundryID(o)

\* ChainID.Addressable: account and NFT identifiers have an address, a
\* foundry identifier has none.
Addressable(chainID) == chainID.Kind \in {"Account", "NFT"}

\* ChainID.ToAddress
ToAddress(chainID) ==
    IF chainID.Kind = "Account" THEN AccountAddress(chainID.ID)
    ELSE NFTAddress(chainID.ID)

Uint16(n) == n % 65536

SignatureUnlock(signature) ==
    [Type |-> "Signature", Signature |-> signature, Reference |-> 0]

ReferenceUnlock(ref) ==
    [Type |-> "Reference", Signature |-> "", Reference |-> ref]

AccountUnlock(ref) ==
    [Type |-> "Account", Signature |-> "", Reference |-> ref]

NFTUnlock(ref) == [Type |-> "NFT", Signature |-> "", Reference |-> ref]

\* A map with the entry of key set to value.
MapSet(m, key, value) ==
    [k \in DOMAIN m \cup {key} |-> IF k = key THEN value ELSE m[k]]

\* A referential unlock that points at the position of the input itself.
addReferentialUnlockSelf(addr, unlocks, pos) ==
    Append(unlocks,
           CASE addr.Kind = "Account" -> AccountUnlock(Uint16(Len(unlocks)))
             [] addr.Kind = "NFT" -> NFTUnlock(Uint16(Len(unlocks)))
             [] OTHER -> ReferenceUnlock(Uint16(Len(unlocks))))

\* addReferentialUnlock
addReferentialUnlock(addr, unlocks, pos) ==
    Append(unlocks,
           CASE addr.Kind = "Account" -> AccountUnlock(Uint16(pos))
             [] addr.Kind = "NFT" -> NFTUnlock(Uint16(pos))
             [] OTHER -> ReferenceUnlock(Uint16(pos)))

\* The chain of a consumed chain output registered at position 0.
addChainAsUnlockedAtZero(input, posUnlocked, prevUnlocked) ==
    IF IsChainOutput(input) /\ Addressable(Chain(input))
    THEN MapSet(prevUnlocked, Key(ToAddress(Chain(input))), 0)
    ELSE prevUnlocked

\* addChainAsUnlocked
addChainAsUnlocked(input, posUnlocked, prevUnlocked) ==
    IF IsChainOutput(input) /\ Addressable(Chain(input))
    THEN MapSet(prevUnlocked, Key(ToAddress(Chain(input))), posUnlocked)
    ELSE prevUnlocked

\* A nil AddressSigner.
NilSigner == [Nil |-> TRUE, Keys |-> {}]

\* An AddressSigner that holds the keys of the given Ed25519 addresses.
NewInMemoryAddressSigner(keys) == [Nil |-> FALSE, Keys |-> keys]

ErrAddressKeysNotPresent == "ErrAddressKeysNotPresent"

ErrTransactionBuilder == "ErrTransactionBuilder"

\* AddressSigner.Sign: the signature, or the error of a signer that lacks the
\* key of the address.
Sign(signer, addr) ==
    IF addr.Kind = "Ed25519" /\ addr.ID \in signer.Keys
    THEN [Signature |-> "sig(" \o Key(addr) \o ")", err |-> NoError]
    ELSE [Signature |-> "", err |-> Err(ErrAddressKeysNotPresent, Key(addr))]

\* NewTransactionBuilder
NewTransactionBuilder ==
    [occurredBuildErr |-> NoError, Inputs |-> <<>>, Outputs |-> <<>>,
     inputs |-> EmptyMap, inputOwner |-> EmptyMap]

\* The checks at the head of Build without the one of the protocol
\* parameters.
BuildPreconditionNoParams(b, protoParams, signer) ==
    CASE b.occurredBuildErr # NoError -> b.occurredBuildErr
      [] signer.Nil -> Err(ErrTransactionBuilder, "must supply signer")
      [] OTHER -> NoError

\* The switch at the head of Build.
BuildPrecondition(b, protoParams, signer) ==
    CASE b.occurredBuildErr # NoError -> b.occurredBuildErr
      [] protoParams = "nil" ->
            Err(ErrTransactionBuilder, "must supply protocol parameters")
      [] signer.Nil -> Err(ErrTransactionBuilder, "must supply signer")
      [] OTHER -> NoError

\* The state of the loop of Build before any input is visited.
BuildLoopStart ==
    [unlockPos |-> EmptyMap, unlocks |-> <<>>, signed |-> <<>>,
     err |-> NoError]

\* The step of the loop of Build that asks for a signature for every input
\* of a key, whether the key has signed before or not.
BuildLoopStepSignsAgain(b, signer, i, st) ==
    LET inputRef == b.Inputs[i + 1]
        addr == b.inputOwner[inputRef]
        addrKey == Key(addr)
        input == b.inputs[inputRef]
        unlocked == IsChainAddress(addr) /\ addrKey \in DOMAIN st.unlockPos
        signature == Sign(signer, addr)
    IN  IF ~unlocked
        THEN IF IsChainAddress(addr)
             THEN [st EXCEPT !.err =
                        Err("error", "input's owning chain is not unlocked")]
             ELSE IF signature.err # NoError
                  THEN [st EXCEPT !.signed = Append(@, addr),
                                  !.err = signature.err]
                  ELSE [st EXCEPT
                          !.signed = Append(@, addr),
                          !.unlocks =
                              Append(@, SignatureUnlock(signature.Signature)),
                          !.unlockPos =
                              MapSet(addChainAsUnlocked(input, i, @),
                                     addrKey, i)]
        ELSE [st EXCEPT
                !.unlocks = addReferentialUnlock(addr, @, st.unlockPos[addrKey]),
                !.unlockPos = addChainAsUnlocked(input, i, @)]

\* One iteration of the loop of Build, for the input at position i (counted
\* from 0).
BuildLoopStep(b, signer, i, st) ==
    LET inputRef == b.Inputs[i + 1]
        addr == b.inputOwner[inputRef]
        addrKey == Key(addr)
        input == b.inputs[inputRef]
        unlocked == addrKey \in DOMAIN st.unlockPos
        signature == Sign(signer, addr)
    IN  IF ~unlocked
        THEN IF IsChainAddress(addr)
             THEN [st EXCEPT !.err =
                        Err("error", "input's owning chain is not unlocked")]
             ELSE IF signature.err # NoError
                  THEN [st EXCEPT !.signed = Append(@, addr),
                                  !.err = signature.err]
                  ELSE [st EXCEPT
                          !.signed = Append(@, addr),
                          !.unlocks =
                              Append(@, SignatureUnlock(signature.Signature)),
                          !.unlockPos =
                              MapSet(addChainAsUnlocked(input, i, @),
                                     addrKey, i)]
        ELSE [st EXCEPT
                !.unlocks = addReferentialUnlock(addr, @, st.unlockPos[addrKey]),
                !.unlockPos = addChainAsUnlocked(input, i, @)]

\* The loop of Build over the inputs of the essence, which returns at the
\* first error.
RECURSIVE BuildLoop(_, _, _, _)
BuildLoop(b, signer, i, st) ==
    IF i >= Len(b.Inputs) \/ st.err # NoError
    THEN st
    ELSE BuildLoop(b, signer, i + 1, BuildLoopStep(b, signer, i, st))

\* TransactionBuilder.Build: the transaction and the error it returns, with
\* the addresses the signer was asked to sign for.
BuildResult(b, protoParams, signer) ==
    IF BuildPrecondition(b, protoParams, signer) # NoError
    THEN [tx |-> NoTransaction, signed |-> <<>>,
          err |-> BuildPrecondition(b, protoParams, signer)]
    ELSE LET st == BuildLoop(b, signer, 0, BuildLoopStart)
         IN  IF st.err # NoError
             THEN [tx |-> NoTransaction, signed |-> st.signed, err |-> st.err]
             ELSE [tx |-> [Essence |-> [Inputs |-> b.Inputs,
                                        Outputs |-> b.Outputs],
                           Unlocks |-> st.unlocks],
                   signed |-> st.signed, err |-> NoError]

\* No Build has returned since the last change of the builder.
NoBuild ==
    [called |-> FALSE, protoParams |-> "nil", signer |-> NilSigner,
     tx |-> NoTransaction, signed |-> <<>>, err |-> NoError]

\* The inputs handed to AddInput: Basic outputs owned by a key, by account A1
\* and by NFT N1, the account and the NFT themselves, an NFT owned by the
\* account, and a foundry of the account.
BuilderTxInputs ==
    { [UnlockTarget |-> Ed25519Address("addr1"),
       Input |-> BasicOutput(0, Ed25519Address("addr1"), 0)],
      [UnlockTarget |-> Ed25519Address("addr2"),
       Input |-> BasicOutput(0, Ed25519Address("addr2"), 0)],
      [UnlockTarget |-> AccountAddress("A1"),
       Input |-> BasicOutput(0, AccountAddress("A1"), 0)],
      [UnlockTarget |-> NFTAddress("N1"),
       Input |-> BasicOutput(0, NFTAddress("N1"), 0)],
      [UnlockTarget |-> Ed25519Address("addr1"),
       Input |-> AccountOutput("A1", Uint32(0, 0), 0, <<>>, <<>>)],
      [UnlockTarget |-> Ed25519Address("addr2"),
       Input |-> NFTOutput("N1", 1, <<>>)],
      [UnlockTarget |-> AccountAddress("A1"),
       Input |-> NFTOutput("N1", 1, <<>>)],
      [UnlockTarget |-> AccountAddress("A1"),
       Input |-> FoundryOutput("A1", 1, SimpleTokenScheme(0, 0, 1), <<>>)] }

Signers ==
    { NilSigner, NewInMemoryAddressSigner({"addr1"}),
      NewInMemoryAddressSigner({"addr1", "addr2"}) }

ProtocolParameters == {"nil", "params"}

(***************************************************************************)
(* Work scores (WorkScore is a uint32, kept as two 16-bit limbs).          *)
(***************************************************************************)
\* The exact product of two 16-bit limbs, as a 32-bit value.
MulLimbs(a, b) ==
    LET p1 == a * (b \div 256)
        p0 == a * (b % 256)
        lo == (p1 % 256) * 256 + p0
    IN  Uint32(p1 \div 256 + lo \div Limb, lo % Limb)

\* Natural numbers below 2^64, as four 16-bit limbs, lowest first.
BigOf(x) == <<x[2], x[1], 0, 0>>

BigAdd(a, b) ==
    LET s1 == a[1] + b[1]
        s2 == a[2] + b[2] + s1 \div Limb
        s3 == a[3] + b[3] + s2 \div Limb
        s4 == a[4] + b[4] + s3 \div Limb
    IN  <<s1 % Limb, s2 % Limb, s3 % Limb, s4>>

\* The exact product of two 32-bit values.
BigMul(x, y) ==
    LET ll == MulLimbs(x[2], y[2])
        lh == MulLimbs(x[2], y[1])
        hl == MulLimbs(x[1], y[2])
        hh == MulLimbs(x[1], y[1])
    IN  BigAdd(BigAdd(<<ll[2], ll[1], 0, 0>>, <<0, lh[2], lh[1], 0>>),
               BigAdd(<<0, hl[2], hl[1], 0>>, <<0, 0, hh[2], hh[1]>>))

\* The quotient of a number by 1024, rounded down.
BigDiv1024(a) ==
    << a[1] \div 1024 + (a[2] % 1024) * 64,
       a[2] \div 1024 + (a[3] % 1024) * 64,
       a[3] \div 1024 + (a[4] % 1024) * 64,
       a[4] \div 1024 >>

FitsUint32(a) == a[3] = 0 /\ a[4] = 0

\* The low 32 bits of a number.
LowUint32(a) == Uint32(a[2], a[1])

ErrIntegerOverflow == "ErrIntegerOverflow"

\* A WorkScore with the error of the call that computed it.
ScoreResult(value, e) == [value |-> value, err |-> e]

\* safemath.SafeAdd on uint32
SafeAdd(x, y) ==
    IF FitsUint32(BigAdd(BigOf(x), BigOf(y)))
    THEN ScoreResult(LowUint32(BigAdd(BigOf(x), BigOf(y))), NoError)
    ELSE ScoreResult(Uint32(0, 0), Err(ErrIntegerOverflow, "add"))

\* safemath.SafeMul on uint32
SafeMul(x, y) ==
    IF FitsUint32(BigMul(x, y))
    THEN ScoreResult(LowUint32(BigMul(x, y)), NoError)
    ELSE ScoreResult(Uint32(0, 0), Err(ErrIntegerOverflow, "mul"))

\* The + of two uint32 values, which wraps.
Uint32Plus(x, y) == LowUint32(BigAdd(BigOf(x), BigOf(y)))

\* The / 1024 of a uint32 value.
Uint32Div1024(x) == LowUint32(BigDiv1024(BigOf(x)))

\* A Go int of 64 bits: top * 2^32 + low, with a top of -1 for the negative
\* values nearest to zero.
IntOf(top, low) == [top |-> top, low |-> low]

\* The conversion WorkScore(in) of an int, which keeps the low 32 bits.
WorkScoreOfInt(in) == in.low

\* WorkScore.Add
RECURSIVE WorkScoreAdd(_, _)
WorkScoreAdd(w, in) ==
    IF in = <<>>
    THEN ScoreResult(w, NoError)
    ELSE IF SafeAdd(w, Head(in)).err # NoError
         THEN ScoreResult(Uint32(0, 0),
                          Err(ErrIntegerOverflow, "failed to calculate WorkScore"))
         ELSE WorkScoreAdd(SafeAdd(w, Head(in)).value, Tail(in))

\* WorkScore.Multiply
WorkScoreMultiply(w, in) ==
    IF SafeMul(w, WorkScoreOfInt(in)).err # NoError
    THEN ScoreResult(Uint32(0, 0),
                     Err(ErrIntegerOverflow, "failed to calculate WorkScore"))
    ELSE SafeMul(w, WorkScoreOfInt(in))

MaxBlockSize == 32768

MaxInputsCount == 128

MaxContextInputsCount == 128

MaxOutputsCount == 128

MaxNativeTokenCountPerOutput == 64

MaxAllotmentCount == 128

\* The terms of MaxBlockWork in the order of the code: the work score, the
\* multiplier it is multiplied with (the Block score is added as it is), and
\* whether the product is divided by 1024.
MaxBlockWorkFactors(w) ==
    << [score |-> w.DataKibibyte, mul |-> TRUE, times |-> MaxBlockSize,
        div |-> TRUE],
       [score |-> w.Block, mul |-> FALSE, times |-> 1, div |-> FALSE],
       [score |-> w.MissingParent, mul |-> TRUE,
        times |-> w.MinStrongParentsThreshold, div |-> FALSE],
       [score |-> w.Input, mul |-> TRUE, times |-> MaxInputsCount,
        div |-> FALSE],
       [score |-> w.ContextInput, mul |-> TRUE,
        times |-> MaxContextInputsCount, div |-> FALSE],
       [score |-> w.Output, mul |-> TRUE, times |-> MaxOutputsCount,
        div |-> FALSE],
       [score |-> w.NativeToken, mul |-> TRUE,
        times |-> MaxNativeTokenCountPerOutput * MaxOutputsCount,
        div |-> FALSE],
       [score |-> w.Staking, mul |-> TRUE, times |-> MaxOutputsCount,
        div |-> FALSE],
       [score |-> w.BlockIssuer, mul |-> TRUE, times |-> MaxOutputsCount,
        div |-> FALSE],
       [score |-> w.Allotment, mul |-> TRUE, times |-> MaxAllotmentCount,
        div |-> FALSE],
       [score |-> w.SignatureEd25519, mul |-> TRUE,
        times |-> 1 + MaxInputsCount, div |-> FALSE] >>

\* The statements of MaxBlockWork from the factor at position i on, with the
\* running sum maxBlockWork.
RECURSIVE MaxBlockWorkFrom(_, _, _)
MaxBlockWorkFrom(factors, i, maxBlockWork) ==
    IF i > Len(factors)
    THEN ScoreResult(maxBlockWork, NoError)
    ELSE LET f == factors[i]
             product ==
                 IF f.mul
                 THEN WorkScoreMultiply(f.score, IntOf(0, Uint32(0, f.times)))
                 ELSE ScoreResult(f.score, NoError)
         IN  IF product.err # NoError
             THEN ScoreResult(Uint32(0, 0), product.err)
             ELSE MaxBlockWorkFrom(factors, i + 1,
                      Uint32Plus(maxBlockWork,
                                 IF f.div THEN Uint32Div1024(product.value)
                                 ELSE product.value))

\* WorkScoreStructure.MaxBlockWork
MaxBlockWork(w) == MaxBlockWorkFrom(MaxBlockWorkFactors(w), 1, Uint32(0, 0))

\* The work scores, multipliers and work score structures of the calls.
WorkScores ==
    { Uint32(0, 0), Uint32(0, 1), Uint32(0, 2), Uint32(0, Limb - 1),
      Uint32(1, 0), Uint32(Limb \div 2, 0), MaxUint32 }

Ints ==
    { IntOf(0, Uint32(0, 0)), IntOf(0, Uint32(0, 1)), IntOf(0, Uint32(0, 2)),
      IntOf(0, Uint32(1, 0)), IntOf(0, MaxUint32), IntOf(1, Uint32(0, 0)),
      IntOf(1, Uint32(0, 2)), IntOf(-1, MaxUint32) }

WorkScoreStructures ==
    { [DataKibibyte |-> d, Block |-> b, MissingParent |-> m, Input |-> i,
       ContextInput |-> Uint32(0, 0), Output |-> o,
       NativeToken |-> Uint32(0, 0), Staking |-> Uint32(0, 0),
       BlockIssuer |-> Uint32(0, 0), Allotment |-> Uint32(0, 0),
       SignatureEd25519 |-> Uint32(0, 1), MinStrongParentsThreshold |-> t] :
        d \in {Uint32(0, 0), Uint32(0, 1), Uint32(2, 0)},
        b \in {Uint32(0, 0), Uint32(0, 1), MaxUint32},
        m \in {Uint32(0, 0), Uint32(0, 1)},
        i \in {Uint32(0, 0), Uint32(0, 1), Uint32(512, 0)},
        o \in {Uint32(0, 0), Uint32(0, 1)},
        t \in {0, 1, 255} }

(***************************************************************************)
(* Calls of the functions of the library: a call is drawn with its         *)
(* arguments and the function is applied to them.                          *)
(***************************************************************************)
NoCall == [fn |-> "none"]

NoReturn == [done |-> FALSE, value |-> <<>>, err |-> NoError]

Return(value, e) == [done |-> TRUE, value |-> value, err |-> e]

AddCalls ==
    {[fn |-> "Add", w |-> w, in |-> in] :
        w \in WorkScores,
        in \in {<<>>} \cup {<<a>> : a \in WorkScores}
                \cup {<<a, b>> : a \in WorkScores, b \in WorkScores}}

MultiplyCalls ==
    {[fn |-> "Multiply", w |-> w, in |-> in] : w \in WorkScores, in \in Ints}

MaxBlockWorkCalls ==
    {[fn |-> "MaxBlockWork", w |-> w] : w \in WorkScoreStructures}

(***************************************************************************)
(* The registry of the aliases of account identifiers.                     *)
(***************************************************************************)
\* AccountID.ToHex: the hex encoding of the bytes of the identifier.
ToHex(a) == "0x" \o a

\* AccountID.Alias, under the registry aliases.
Alias(a, aliases) == IF a \in DOMAIN aliases THEN aliases[a] ELSE ToHex(a)

\* AccountID.String
String(a, aliases) == Alias(a, aliases)

\* AccountID.Key
AccountIDKey(a, aliases) == String(a, aliases)

\* A map without the entry of key.
MapDelete(m, key) == [k \in DOMAIN m \ {key} |-> m[k]]

\* The account identifiers that get aliases, and the aliases they get: two
\* names and the hex encoding of an identifier.
AliasedAccountIDs == {"A1", "A2", "A3", "A4"}

Aliases == {"alice", "bob", ToHex("A2")}

(***************************************************************************)
(* Feature lists (feat.go).                                                *)
(***************************************************************************)
ErrNonUniqueFeatures == "ErrNonUniqueFeatures"

\* Features.Set: the error it returns, ErrNonUniqueFeatures when a feature
\* type occurs more than once.
FeaturesSetError(f) ==
    IF \E i, j \in 1 .. Len(f) : i < j /\ f[i].Type = f[j].Type
    THEN Err(ErrNonUniqueFeatures, "non unique features within outputs")
    ELSE NoError

\* The positions of the features of a type, and the first of them.
PositionsOfType(f, type) == {i \in 1 .. Len(f) : f[i].Type = type}

FirstOfType(f, type) ==
    CHOOSE i \in PositionsOfType(f, type) :
        \A j \in PositionsOfType(f, type) : i <= j

\* An Upsert that appends the feature without looking for its type.
UpsertAppend(f, feature) == Append(f, feature)

\* Features.Upsert
Upsert(f, feature) ==
    IF PositionsOfType(f, feature.Type) # {}
    THEN [f EXCEPT ![FirstOfType(f, feature.Type)] = feature]
    ELSE Append(f, feature)

\* Features.Remove: the list it leaves and the value it returns.
Remove(f, featureType) ==
    IF PositionsOfType(f, featureType) # {}
    THEN [list |-> SubSeq(f, 1, FirstOfType(f, featureType) - 1)
                      \o SubSeq(f, FirstOfType(f, featureType) + 1, Len(f)),
          removed |-> TRUE]
    ELSE [list |-> f, removed |-> FALSE]

\* The features handed to Upsert, the feature types handed to Remove, and the
\* lists the calls start from, which hold at most one feature per type in
\* any order.
UpsertFeatures ==
    { SenderFeature("addr1"), SenderFeature("addr2"), MetadataFeature(1),
      MetadataFeature(2), BlockIssuerFeature(0), BlockIssuerFeature(1) }

RemoveTypes == {FeatureSender, FeatureMetadata, FeatureBlockIssuer, FeatureTag}

StartFeatureLists ==
    { <<>>, <<MetadataFeature(1)>>,
      <<BlockIssuerFeature(0), SenderFeature("addr1")>>,
      <<SenderFeature("addr1"), MetadataFeature(1), BlockIssuerFeature(0)>> }

\* No call on the feature list has been made.
NoFeatureCall ==
    [op |-> "none", feature |-> Nil, type |-> -1, before |-> <<>>,
     removed |-> FALSE]

(***************************************************************************)
(* The account output builder (builder/output_builder_account.go).         *)
(***************************************************************************)
\* A BlockIssuerFeature with its keys, and a StakingFeature with all its
\* fields.
BlockIssuerFeatureOf(keys, expirySlot) ==
    [Type |-> FeatureBlockIssuer, BlockIssuerKeys |-> keys,
     ExpirySlot |-> expirySlot]

StakingFeatureOf(amount, fixedCost, startEpoch, endEpoch) ==
    [Type |-> FeatureStaking, StakedAmount |-> amount,
     FixedCost |-> fixedCost, StartEpoch |-> startEpoch,
     EndEpoch |-> endEpoch]

\* FeatureSet.BlockIssuer and FeatureSet.Staking on the feature set of an
\* output: the feature of the type, or nil.
FeatureOfType(f, type) ==
    IF PositionsOfType(f, type) = {} THEN Nil ELSE f[FirstOfType(f, type)]

\* Features.Sort, on a list with one feature per type.
RECURSIVE SortFeatures(_)
SortFeatures(f) ==
    IF f = <<>> THEN <<>>
    ELSE LET least == CHOOSE i \in 1 .. Len(f) :
                          \A j \in 1 .. Len(f) : f[i].Type <= f[j].Type
         IN  <<f[least]>>
                 \o SortFeatures(SubSeq(f, 1, least - 1)
                                     \o SubSeq(f, least + 1, Len(f)))

\* NewAccountOutputBuilder
NewAccountOutputBuilder ==
    [prev |-> NoOutput,
     output |-> AccountOutput(EmptyAccountID, Uint32(0, 0), 0, <<>>, <<>>)]

\* NewAccountOutputBuilderFromPrevious
NewAccountOutputBuilderFromPrevious(previous) ==
    [prev |-> previous, output |-> previous]

\* The handle a transition call returns: the feature it points to and
\* whether that feature is the one in the list of the output (attached).
\* created tells that the call found no feature and made an empty one, and
\* replaced that the builder has set a feature of the type since.
NoTransition ==
    [made |-> FALSE, feature |-> Nil, attached |-> FALSE, created |-> FALSE,
     replaced |-> FALSE]

\* AccountOutputBuilder.BlockIssuerTransition and StakingTransition: the
\* handle for the feature of the type, with the empty feature when the
\* output has none.
TransitionOf(output, type, empty) ==
    [made |-> TRUE,
     feature |-> IF FeatureOfType(output.Features, type) = Nil
                 THEN empty ELSE FeatureOfType(output.Features, type),
     attached |-> FeatureOfType(output.Features, type) # Nil,
     created |-> FeatureOfType(output.Features, type) = Nil,
     replaced |-> FALSE]

\* The output after the feature a handle points to was written through the
\* handle.
OutputSeenThrough(output, trans) ==
    IF trans.attached
    THEN [output EXCEPT !.Features = Upsert(@, trans.feature)]
    ELSE output

\* AccountOutputBuilder.Build: the output it returns and its error.
AccountBuildResult(b) ==
    IF b.prev # NoOutput
          /\ b.prev.ImmutableFeatures # b.output.ImmutableFeatures
    THEN [output |-> NoOutput,
          err |-> Err("error", "immutable features are not allowed to be changed")]
    ELSE [output |-> [b.output EXCEPT
                        !.Features = SortFeatures(@),
                        !.ImmutableFeatures = SortFeatures(@)],
          err |-> NoError]

NoAccountBuild == [called |-> FALSE, output |-> NoOutput, err |-> NoError]

\* The arguments of the calls on the builder and on the transitions.
BlockIssuerKeys == {"key1", "key2"}

BuilderExpirySlots == {0, 1, 2}

BuilderAmounts == {0, 1}

BuilderEpochs == {0, 1}

PreviousAccounts ==
    { AccountOutput("A1", Uint32(0, 0), 0,
                    <<StakingFeatureOf(1, 0, 0, 1),
                      BlockIssuerFeatureOf({"key1"}, 1)>>,
                    <<IssuerFeature("addr1")>>) }

(***************************************************************************)
(* Restricted addresses (address_restricted_ed25519.go,                    *)
(* address_restricted_account.go).  A capabilities bitmask is a sequence   *)
(* of bytes; nil and the empty slice are both the empty sequence.          *)
(***************************************************************************)
Pow2(k) == IF k = 0 THEN 1 ELSE IF k = 1 THEN 2 ELSE IF k = 2 THEN 4
           ELSE IF k = 3 THEN 8 ELSE IF k = 4 THEN 16 ELSE IF k = 5 THEN 32
           ELSE IF k = 6 THEN 64 ELSE 128

ByteHasBit(b, k) == (b \div Pow2(k)) % 2 = 1

\* AddressCapabilitiesBitMask.setBit: the bitmask grown to hold the bit,
\* with the bit set.
setBit(bm, bit) ==
    LET byteIndex == bit \div 8
        grown == bm \o [i \in 1 .. (byteIndex + 1 - Len(bm)) |-> 0]
    IN  [grown EXCEPT ![byteIndex + 1] =
            IF ByteHasBit(@, bit % 8) THEN @ ELSE @ + Pow2(bit % 8)]

\* AddressCapabilitiesBitMask.hasBit
hasBit(bm, bit) ==
    /\ bit \div 8 < Len(bm)
    /\ ByteHasBit(bm[bit \div 8 + 1], bit % 8)

\* AddressCapabilitiesBitMask.Size: a length byte and the bytes.
BitMaskSize(bm) == 1 + Len(bm)

canReceiveNativeTokensBitIndex == 0

canReceiveManaBitIndex == 1

canReceiveOutputsWithTimelockUnlockConditionBitIndex == 2

canReceiveOutputsWithExpirationUnlockConditionBitIndex == 3

canReceiveOutputsWithStorageDepositReturnUnlockConditionBitIndex == 4

canReceiveAccountOutputsBitIndex == 5

canReceiveNFTOutputsBitIndex == 6

canReceiveDelegationOutputsBitIndex == 7

Ed25519AddressSerializedBytesSize == 33

\* blake2b.Sum256
Blake2b(pubKey) == "blake2b(" \o pubKey \o ")"

RestrictedEd25519Address(pubKeyHash, capabilities) ==
    [Kind |-> "RestrictedEd25519", ID |-> pubKeyHash,
     Capabilities |-> capabilities]

RestrictedAccountAddress(accountID, capabilities) ==
    [Kind |-> "RestrictedAccount", ID |-> accountID,
     Capabilities |-> capabilities]

\* The statement  if flag { capabilities = capabilities.setBit(bit) }
SetBitIf(flag, bm, bit) == IF flag THEN setBit(bm, bit) ELSE bm

\* RestrictedEd25519AddressFromPubKey with the bits of the last two flags
\* exchanged.
RestrictedEd25519AddressFromPubKeySwapped(pubKey, flags) ==
    LET c1 == SetBitIf(flags[1], <<>>, canReceiveNativeTokensBitIndex)
        c2 == SetBitIf(flags[2], c1, canReceiveManaBitIndex)
        c3 == SetBitIf(flags[3], c2,
                       canReceiveOutputsWithTimelockUnlockConditionBitIndex)
        c4 == SetBitIf(flags[4], c3,
                       canReceiveOutputsWithExpirationUnlockConditionBitIndex)
        c5 == SetBitIf(flags[5], c4,
                       canReceiveOutputsWithStorageDepositReturnUnlockConditionBitIndex)
        c6 == SetBitIf(flags[6], c5, canReceiveAccountOutputsBitIndex)
        c7 == SetBitIf(flags[7], c6, canReceiveDelegationOutputsBitIndex)
        c8 == SetBitIf(flags[8], c7, canReceiveNFTOutputsBitIndex)
    IN  RestrictedEd25519Address(Blake2b(pubKey), c8)

\* RestrictedEd25519AddressFromPubKey; flags holds the eight boolean
\* arguments in their order.
RestrictedEd25519AddressFromPubKey(pubKey, flags) ==
    LET c1 == SetBitIf(flags[1], <<>>, canReceiveNativeTokensBitIndex)
        c2 == SetBitIf(flags[2], c1, canReceiveManaBitIndex)
        c3 == SetBitIf(flags[3], c2,
                       canReceiveOutputsWithTimelockUnlockConditionBitIndex)
        c4 == SetBitIf(flags[4], c3,
                       canReceiveOutputsWithExpirationUnlockConditionBitIndex)
        c5 == SetBitIf(flags[5], c4,
                       canReceiveOutputsWithStorageDepositReturnUnlockConditionBitIndex)
        c6 == SetBitIf(flags[6], c5, canReceiveAccountOutputsBitIndex)
        c7 == SetBitIf(flags[7], c6, canReceiveNFTOutputsBitIndex)
        c8 == SetBitIf(flags[8], c7, canReceiveDelegationOutputsBitIndex)
    IN  RestrictedEd25519Address(Blake2b(pubKey), c8)

\* The capability queries of a restricted address.
CanReceiveNativeTokens(addr) ==
    hasBit(addr.Capabilities, canReceiveNativeTokensBitIndex)

CanReceiveMana(addr) == hasBit(addr.Capabilities, canReceiveManaBitIndex)

CanReceiveOutputsWithTimelockUnlockCondition(addr) ==
    hasBit(addr.Capabilities,
           canReceiveOutputsWithTimelockUnlockConditionBitIndex)

CanReceiveOutputsWithExpirationUnlockCondition(addr) ==
    hasBit(addr.Capabilities,
           canReceiveOutputsWithExpirationUnlockConditionBitIndex)

CanReceiveOutputsWithStorageDepositReturnUnlockCondition(addr) ==
    hasBit(addr.Capabilities,
           canReceiveOutputsWithStorageDepositReturnUnlockConditionBitIndex)

CanReceiveAccountOutputs(addr) ==
    hasBit(addr.Capabilities, canReceiveAccountOutputsBitIndex)

CanReceiveNFTOutputs(addr) ==
    hasBit(addr.Capabilities, canReceiveNFTOutputsBitIndex)

CanReceiveDelegationOutputs(addr) ==
    hasBit(addr.Capabilities, canReceiveDelegationOutputsBitIndex)

\* The eight queries in the order of their flags.
CapabilityChecks(addr) ==
    <<CanReceiveNativeTokens(addr), CanReceiveMana(addr),
      CanReceiveOutputsWithTimelockUnlockCondition(addr),
      CanReceiveOutputsWithExpirationUnlockCondition(addr),
      CanReceiveOutputsWithStorageDepositReturnUnlockCondition(addr),
      CanReceiveAccountOutputs(addr), CanReceiveNFTOutputs(addr),
      CanReceiveDelegationOutputs(addr)>>

\* RestrictedEd25519Address.Size
RestrictedEd25519AddressSize(addr) ==
    Ed25519AddressSerializedBytesSize + BitMaskSize(addr.Capabilities)

\* The builtin copy(dst, src): the first min(len(dst), len(src)) elements
\* of dst are overwritten.
CopyBytes(dst, src) ==
    [i \in 1 .. Len(dst) |-> IF i <= Len(src) THEN src[i] ELSE dst[i]]

\* RestrictedEd25519Address.Clone and RestrictedAccountAddress.Clone: the
\* identifier is copied into the array of a new address, the capabilities
\* into its capabilities, which are nil.
RestrictedAddressClone(addr) ==
    [Kind |-> addr.Kind, ID |-> addr.ID,
     Capabilities |-> CopyBytes(<<>>, addr.Capabilities)]

\* RestrictedEd25519Address.Equal and RestrictedAccountAddress.Equal
RestrictedAddressEqual(addr, other) ==
    /\ addr.Kind = other.Kind
    /\ addr.ID = other.ID
    /\ addr.Capabilities = other.Capabilities

\* The calls made on restricted addresses.
PubKeys == {"pubKey1", "pubKey2"}

CapabilityFlags == [1 .. 8 -> BOOLEAN]

CapabilityBitMasks == {<<>>, <<0>>, <<1>>, <<65>>, <<255>>}

RestrictedAddresses ==
    {RestrictedEd25519Address(Blake2b(pubKey), capabilities) :
        pubKey \in PubKeys, capabilities \in CapabilityBitMasks}
      \cup {RestrictedAccountAddress(id, capabilities) :
               id \in {"A1", "A2"}, capabilities \in CapabilityBitMasks}

FromPubKeyCalls ==
    {[fn |-> "RestrictedEd25519AddressFromPubKey", pubKey |-> pubKey,
      flags |-> flags] : pubKey \in PubKeys, flags \in CapabilityFlags}

CloneCalls == {[fn |-> "Clone", addr |-> addr] : addr \in RestrictedAddresses}

(***************************************************************************)
(* The variables of the parts of the library, and their values while a     *)
(* part is not in use.                                                     *)
(***************************************************************************)
callVars == <<call, returned>>

CallIdle ==
    /\ call = NoCall
    /\ returned = NoReturn

aliasVars == <<accountIDAliases>>

AliasIdle ==
    /\ accountIDAliases = EmptyMap

featuresVars == <<featureList, featureCall>>

FeaturesIdle ==
    /\ featureList = <<>>
    /\ featureCall = NoFeatureCall

accountBuilderVars == <<accountBuilder, blockIssuerTransition, stakingTransition, accountBuilt>>

AccountBuilderIdle ==
    /\ accountBuilder = NewAccountOutputBuilder
    /\ blockIssuerTransition = NoTransition
    /\ stakingTransition = NoTransition
    /\ accountBuilt = NoAccountBuild

\* The variables of the other parts, and their values when only this part
\* is in use.
callOthers == <<aliasVars, featuresVars, accountBuilderVars>>

CallOthersIdle ==
    /\ AliasIdle
    /\ FeaturesIdle
    /\ AccountBuilderIdle

\* The variables of the other parts, and their values when only this part
\* is in use.
aliasOthers == <<callVars, featuresVars, accountBuilderVars>>

AliasOthersIdle ==
    /\ CallIdle
    /\ FeaturesIdle
    /\ AccountBuilderIdle

\* The variables of the other parts, and their values when only this part
\* is in use.
featuresOthers == <<callVars, aliasVars, accountBuilderVars>>

FeaturesOthersIdle ==
    /\ CallIdle
    /\ AliasIdle
    /\ AccountBuilderIdle

\* The variables of the other parts, and their values when only this part
\* is in use.
accountBuilderOthers == <<callVars, aliasVars, featuresVars>>

AccountBuilderOthersIdle ==
    /\ CallIdle
    /\ AliasIdle
    /\ FeaturesIdle

libVars == <<callVars, aliasVars, featuresVars, accountBuilderVars>>

\* No part of the library is in use.
LibIdle ==
    /\ CallIdle
    /\ AliasIdle
    /\ FeaturesIdle
    /\ AccountBuilderIdle

(***************************************************************************)
(* The state machine: a transaction with its resolved inputs is handed to  *)
(* the virtual machine, which validates it.                                *)
(***************************************************************************)
TypeOK ==
    /\ pc \in {"ready", "done"}
    /\ op \in {"none", "Execute", "ChainSTVF"}
    /\ err \in [Kind : STRING, Why : STRING]

Init ==
    /\ \/ /\ \E i \in DOMAIN ChainTxFamilies : tx \in ChainTxFamilies[i]
          /\ overrideFuncs = <<>>
       \/ /\ tx \in PipelineTxs
          /\ overrideFuncs \in {<<>>} \cup OverrideLists
    /\ pc = "ready"
    /\ op = "none"
    /\ target = NoTarget
    /\ ran = <<>>
    /\ err = NoError
    /\ builder = NewTransactionBuilder
    /\ built = NoBuild
    /\ LibIdle

\* virtualMachine.Execute
Execute ==
    /\ pc = "ready"
    /\ IF NewVMParamsWorkingSet(tx) # NoError
       THEN /\ ran' = <<>>
            /\ err' = NewVMParamsWorkingSet(tx)
       ELSE \E r \in RunVMFuncs(tx, IF Len(overrideFuncs) > 0
                                    THEN overrideFuncs ELSE execList) :
                /\ ran' = r.ran
                /\ err' = r.err
    /\ op' = "Execute"
    /\ pc' = "done"
    /\ UNCHANGED <<tx, overrideFuncs, target, builder, built, libVars>>

\* virtualMachine.ChainSTVF, called for one chain of the transaction.
CallChainSTVF ==
    /\ pc = "ready"
    /\ \E chainID \in TouchedChains(tx) :
          /\ target' = chainID
          /\ err' = ChainVerdict(tx, chainID)
    /\ op' = "ChainSTVF"
    /\ pc' = "done"
    /\ UNCHANGED <<tx, overrideFuncs, ran, builder, built, libVars>>

Next == Execute \/ CallChainSTVF

Spec == Init /\ [][Next]_vars

(***************************************************************************)
(* The state machine of the transaction builder: inputs and outputs are    *)
(* added to a fresh builder, and Build is called on it at any time.        *)
(***************************************************************************)
vmVars == <<tx, overrideFuncs, pc, op, target, ran, err>>

\* The virtual machine has no transaction to validate.
VMIdle ==
    /\ tx = NoTransaction
    /\ overrideFuncs = <<>>
    /\ pc = "ready"
    /\ op = "none"
    /\ target = NoTarget
    /\ ran = <<>>
    /\ err = NoError

builderVars == <<builder, built>>

\* A fresh builder on which Build has not been called.
BuilderIdle == builder = NewTransactionBuilder /\ built = NoBuild

BuilderInit ==
    /\ builder = NewTransactionBuilder
    /\ built = NoBuild
    /\ VMIdle
    /\ LibIdle

\* The output ids an input may be added under: a fresh one, or the one of the
\* input added last.
InputIDs(b) ==
    {NewOutputID(Len(b.Inputs) + 1)}
        \cup (IF Len(b.Inputs) > 0 THEN {b.Inputs[Len(b.Inputs)]} ELSE {})

\* TransactionBuilder.AddInput
AddInput ==
    /\ Len(builder.Inputs) < MaxInputs
    /\ \E input \in BuilderTxInputs, inputID \in InputIDs(builder) :
          builder' =
              [builder EXCEPT
                 !.inputOwner = MapSet(@, inputID, input.UnlockTarget),
                 !.Inputs = Append(@, inputID),
                 !.inputs = MapSet(@, inputID, input.Input)]
    /\ built' = NoBuild
    /\ UNCHANGED <<vmVars, libVars>>

\* TransactionBuilder.AddOutput
AddOutput ==
    /\ Len(builder.Outputs) < MaxOutputs
    /\ builder' =
          [builder EXCEPT
             !.Outputs = Append(@, BasicOutput(0, Ed25519Address("addr1"), 0))]
    /\ built' = NoBuild
    /\ UNCHANGED <<vmVars, libVars>>

\* TransactionBuilder.Build
Build ==
    /\ \E protoParams \in ProtocolParameters, signer \in Signers :
          LET r == BuildResult(builder, protoParams, signer)
          IN  built' = [called |-> TRUE, protoParams |-> protoParams,
                        signer |-> signer, tx |-> r.tx, signed |-> r.signed,
                        err |-> r.err]
    /\ UNCHANGED <<builder, vmVars, libVars>>

BuilderNext == AddInput \/ AddOutput \/ Build

BuilderSpec == BuilderInit /\ [][BuilderNext]_vars

(***************************************************************************)
(* The state machine of the calls of the library.                          *)
(***************************************************************************)
CallInit ==
    /\ \/ call \in AddCalls
       \/ call \in MultiplyCalls
       \/ call \in MaxBlockWorkCalls
       \/ call \in FromPubKeyCalls
       \/ call \in CloneCalls
    /\ returned = NoReturn
    /\ VMIdle
    /\ BuilderIdle
    /\ CallOthersIdle

\* WorkScore.Add
Add ==
    /\ call.fn = "Add"
    /\ ~returned.done
    /\ returned' = Return(WorkScoreAdd(call.w, call.in).value,
                          WorkScoreAdd(call.w, call.in).err)
    /\ UNCHANGED <<call, vmVars, builderVars, callOthers>>

\* WorkScore.Multiply
Multiply ==
    /\ call.fn = "Multiply"
    /\ ~returned.done
    /\ returned' = Return(WorkScoreMultiply(call.w, call.in).value,
                          WorkScoreMultiply(call.w, call.in).err)
    /\ UNCHANGED <<call, vmVars, builderVars, callOthers>>

\* WorkScoreStructure.MaxBlockWork
CallMaxBlockWork ==
    /\ call.fn = "MaxBlockWork"
    /\ ~returned.done
    /\ returned' = Return(MaxBlockWork(call.w).value, MaxBlockWork(call.w).err)
    /\ UNCHANGED <<call, vmVars, builderVars, callOthers>>

\* RestrictedEd25519AddressFromPubKey
CallFromPubKey ==
    /\ call.fn = "RestrictedEd25519AddressFromPubKey"
    /\ ~returned.done
    /\ returned' =
          Return(RestrictedEd25519AddressFromPubKey(call.pubKey, call.flags),
                 NoError)
    /\ UNCHANGED <<call, vmVars, builderVars, callOthers>>

\* RestrictedEd25519Address.Clone, RestrictedAccountAddress.Clone
Clone ==
    /\ call.fn = "Clone"
    /\ ~returned.done
    /\ returned' = Return(RestrictedAddressClone(call.addr), NoError)
    /\ UNCHANGED <<call, vmVars, builderVars, callOthers>>

CallNext == Add \/ Multiply \/ CallMaxBlockWork \/ CallFromPubKey \/ Clone

CallSpec == CallInit /\ [][CallNext]_vars

(***************************************************************************)
(* The state machine of the alias registry.                                *)
(***************************************************************************)
AliasInit ==
    /\ accountIDAliases = EmptyMap
    /\ VMIdle
    /\ BuilderIdle
    /\ AliasOthersIdle

\* AccountID.RegisterAlias
RegisterAlias ==
    /\ \E a \in AliasedAccountIDs, alias \in Aliases :
          accountIDAliases' = MapSet(accountIDAliases, a, alias)
    /\ UNCHANGED <<vmVars, builderVars, aliasOthers>>

\* AccountID.UnregisterAlias
UnregisterAlias ==
    /\ \E a \in AliasedAccountIDs :
          accountIDAliases' = MapDelete(accountIDAliases, a)
    /\ UNCHANGED <<vmVars, builderVars, aliasOthers>>

AliasNext == RegisterAlias \/ UnregisterAlias

AliasSpec == AliasInit /\ [][AliasNext]_vars

(***************************************************************************)
(* The state machine of a feature list under its mutators.                 *)
(***************************************************************************)
FeaturesInit ==
    /\ featureList \in StartFeatureLists
    /\ featureCall = NoFeatureCall
    /\ VMIdle
    /\ BuilderIdle
    /\ FeaturesOthersIdle

\* Features.Upsert
CallUpsert ==
    /\ \E feature \in UpsertFeatures :
          /\ featureList' = Upsert(featureList, feature)
          /\ featureCall' = [op |-> "Upsert", feature |-> feature,
                             type |-> feature.Type, before |-> featureList,
                             removed |-> FALSE]
    /\ UNCHANGED <<vmVars, builderVars, featuresOthers>>

\* Features.Remove
CallRemove ==
    /\ \E type \in RemoveTypes :
          /\ featureList' = Remove(featureList, type).list
          /\ featureCall' = [op |-> "Remove", feature |-> Nil, type |-> type,
                             before |-> featureList,
                             removed |-> Remove(featureList, type).removed]
    /\ UNCHANGED <<vmVars, builderVars, featuresOthers>>

FeaturesNext == CallUpsert \/ CallRemove

FeaturesSpec == FeaturesInit /\ [][FeaturesNext]_vars

(***************************************************************************)
(* The state machine of the account output builder: features are set on    *)
(* the builder or through its transitions, and Build is called at any      *)
(* time.                                                                   *)
(***************************************************************************)
AccountBuilderInit ==
    /\ \/ accountBuilder = NewAccountOutputBuilder
       \/ \E previous \in PreviousAccounts :
             accountBuilder = NewAccountOutputBuilderFromPrevious(previous)
    /\ blockIssuerTransition = NoTransition
    /\ stakingTransition = NoTransition
    /\ accountBuilt = NoAccountBuild
    /\ VMIdle
    /\ BuilderIdle
    /\ AccountBuilderOthersIdle

accountBuilderFrame == <<vmVars, builderVars, accountBuilderOthers>>

\* AccountOutputBuilder.BlockIssuer
BuilderBlockIssuer ==
    /\ \E keys \in {{}, {"key1"}}, expirySlot \in BuilderExpirySlots :
          accountBuilder' =
              [accountBuilder EXCEPT
                 !.output.Features =
                     Upsert(@, BlockIssuerFeatureOf(keys, expirySlot))]
    /\ blockIssuerTransition' =
          IF blockIssuerTransition.made
          THEN [blockIssuerTransition EXCEPT !.attached = FALSE,
                                             !.replaced = TRUE]
          ELSE blockIssuerTransition
    /\ accountBuilt' = NoAccountBuild
    /\ UNCHANGED <<stakingTransition, accountBuilderFrame>>

\* AccountOutputBuilder.Staking
BuilderStaking ==
    /\ \E amount \in BuilderAmounts, endEpoch \in BuilderEpochs :
          accountBuilder' =
              [accountBuilder EXCEPT
                 !.output.Features =
                     Upsert(@, StakingFeatureOf(amount, 0, 0, endEpoch))]
    /\ stakingTransition' =
          IF stakingTransition.made
          THEN [stakingTransition EXCEPT !.attached = FALSE,
                                         !.replaced = TRUE]
          ELSE stakingTransition
    /\ accountBuilt' = NoAccountBuild
    /\ UNCHANGED <<blockIssuerTransition, accountBuilderFrame>>

\* AccountOutputBuilder.BlockIssuerTransition
BlockIssuerTransition ==
    /\ blockIssuerTransition' =
          TransitionOf(accountBuilder.output, FeatureBlockIssuer,
                       BlockIssuerFeatureOf({}, 0))
    /\ accountBuilt' = NoAccountBuild
    /\ UNCHANGED <<accountBuilder, stakingTransition, accountBuilderFrame>>

\* AccountOutputBuilder.StakingTransition
StakingTransition ==
    /\ stakingTransition' =
          TransitionOf(accountBuilder.output, FeatureStaking,
                       StakingFeatureOf(0, 0, 0, 0))
    /\ accountBuilt' = NoAccountBuild
    /\ UNCHANGED <<accountBuilder, blockIssuerTransition, accountBuilderFrame>>

\* BlockIssuerTransition.AddKeys
AddKeys ==
    /\ blockIssuerTransition.made
    /\ \E key \in BlockIssuerKeys :
          blockIssuerTransition' =
              [blockIssuerTransition EXCEPT
                 !.feature.BlockIssuerKeys = @ \cup {key}]
    /\ accountBuilder' =
          [accountBuilder EXCEPT
             !.output = OutputSeenThrough(@, blockIssuerTransition')]
    /\ accountBuilt' = NoAccountBuild
    /\ UNCHANGED <<stakingTransition, accountBuilderFrame>>

\* BlockIssuerTransition.ExpirySlot
ExpirySlot ==
    /\ blockIssuerTransition.made
    /\ \E slot \in BuilderExpirySlots :
          blockIssuerTransition' =
              [blockIssuerTransition EXCEPT !.feature.ExpirySlot = slot]
    /\ accountBuilder' =
          [accountBuilder EXCEPT
             !.output = OutputSeenThrough(@, blockIssuerTransition')]
    /\ accountBuilt' = NoAccountBuild
    /\ UNCHANGED <<stakingTransition, accountBuilderFrame>>

\* StakingTransition.StakedAmount
StakedAmount ==
    /\ stakingTransition.made
    /\ \E amount \in BuilderAmounts :
          stakingTransition' =
              [stakingTransition EXCEPT !.feature.StakedAmount = amount]
    /\ accountBuilder' =
          [accountBuilder EXCEPT
             !.output = OutputSeenThrough(@, stakingTransition')]
    /\ accountBuilt' = NoAccountBuild
    /\ UNCHANGED <<blockIssuerTransition, accountBuilderFrame>>

\* StakingTransition.EndEpoch
EndEpoch ==
    /\ stakingTransition.made
    /\ \E epoch \in BuilderEpochs :
          stakingTransition' =
              [stakingTransition EXCEPT !.feature.EndEpoch = epoch]
    /\ accountBuilder' =
          [accountBuilder EXCEPT
             !.output = OutputSeenThrough(@, stakingTransition')]
    /\ accountBuilt' = NoAccountBuild
    /\ UNCHANGED <<blockIssuerTransition, accountBuilderFrame>>

\* BlockIssuerTransition.Builder / StakingTransition.Builder followed by
\* AccountOutputBuilder.Build
AccountBuild ==
    /\ accountBuilt' =
          [called |-> TRUE, output |-> AccountBuildResult(accountBuilder).output,
           err |-> AccountBuildResult(accountBuilder).err]
    /\ accountBuilder' =
          IF AccountBuildResult(accountBuilder).err = NoError
          THEN [accountBuilder EXCEPT
                  !.output = AccountBuildResult(accountBuilder).output]
          ELSE accountBuilder
    /\ UNCHANGED <<blockIssuerTransition, stakingTransition,
                   accountBuilderFrame>>

AccountBuilderNext ==
    \/ BuilderBlockIssuer
    \/ BuilderStaking
    \/ BlockIssuerTransition
    \/ StakingTransition
    \/ AddKeys
    \/ ExpirySlot
    \/ StakedAmount
    \/ EndEpoch
    \/ AccountBuild

AccountBuilderSpec == AccountBuilderInit /\ [][AccountBuilderNext]_vars

(***************************************************************************)
(* Vocabulary of the properties.                                           *)
(***************************************************************************)
Done == pc = "done"

Accepted == err = NoError

\* ChainSTVF has been called for a chain of the given kind and transition.
STVFDone(kind, transType) ==
    /\ Done
    /\ op = "ChainSTVF"
    /\ target.Kind = kind
    /\ TransitionType(tx, target) = transType

\* The consumed and the created state of the chain ChainSTVF was called for.
TargetIn == InChains(tx)[target].Output

TargetOut == OutChains(tx)[target]

\* y = x + 1 as natural numbers (no wrap-around).
IsSuccessor(x, y) ==
    \/ x[2] < Limb - 1 /\ y = <<x[1], x[2] + 1>>
    \/ x[2] = Limb - 1 /\ x[1] < Limb - 1 /\ y = <<x[1] + 1, 0>>

\* The features of one type in a feature list.
FeaturesOfType(features, type) ==
    {features[i] : i \in {j \in 1..Len(features) : features[j].Type = type}}

\* The positions of the outputs that are new foundries anchored to an account.
NewFoundriesOf(accountID) ==
    {i \in 1..Len(tx.Outputs) :
        /\ tx.Outputs[i].Type = "Foundry"
        /\ tx.Outputs[i].Account = accountID
        /\ \A k \in 1..Len(tx.Inputs) :
              tx.Inputs[k].Output.Type = "Foundry"
                 => \/ tx.Inputs[k].Output.Account # tx.Outputs[i].Account
                    \/ tx.Inputs[k].Output.SerialNumber # tx.Outputs[i].SerialNumber}

\* The seven default checks in the order of the specification.
DefaultOrder ==
    << "Timelocks", "InputUnlocks", "SenderUnlocked", "BalancedDeposit",
       "BalancedNativeTokens", "ChainTransitions", "BalancedMana" >>

\* The check with this name reports a violation for the transaction.
Violated(name) ==
    IF name = "ChainTransitions"
    THEN \E c \in TouchedChains(tx) : ChainVerdict(tx, c) # NoError
    ELSE name \in tx.Violations

DefaultExecuteDone ==
    /\ Done
    /\ op = "Execute"
    /\ overrideFuncs = <<>>
    /\ ~tx.MissingInput

(***************************************************************************)
(* C1: Execute without override functions runs the seven default checks in *)
(* the order timelocks, input unlocks, sender unlocked, balanced deposit,  *)
(* balanced native tokens, chain transitions, balanced mana; it stops at   *)
(* the first check that reports a violation and returns that violation, so *)
(* no later check runs, and it accepts only if all seven pass.             *)
(***************************************************************************)
C1_DefaultChecksFailFast ==
    DefaultExecuteDone =>
        /\ Len(ran) \in 1..7
        /\ \A i \in 1..Len(ran) : ran[i] = DefaultOrder[i]
        /\ \A i \in 1..Len(ran) - 1 : ~Violated(DefaultOrder[i])
        /\ Accepted <=> (\A i \in 1..7 : ~Violated(DefaultOrder[i]))
        /\ Accepted => Len(ran) = 7
        /\ ~Accepted =>
              /\ Violated(ran[Len(ran)])
              /\ ran[Len(ran)] # "ChainTransitions" => err.Why = ran[Len(ran)]
              /\ ran[Len(ran)] = "ChainTransitions" =>
                    \E c \in TouchedChains(tx) : err = ChainVerdict(tx, c)

\* A run that stops at the fourth check although a later check is violated too.
C1_Witness ==
    /\ DefaultExecuteDone
    /\ ran = <<"Timelocks", "InputUnlocks", "SenderUnlocked", "BalancedDeposit">>
    /\ err.Why = "BalancedDeposit"
    /\ "BalancedMana" \in tx.Violations
    /\ Violated("ChainTransitions")

(***************************************************************************)
(* C2: a state change of an account whose state index differs between the  *)
(* consumed and the created side is accepted only if the created index is  *)
(* exactly one greater than the consumed one; with any other difference (a *)
(* jump of two or more, or a decrease) it is rejected with the invalid     *)
(* account state transition error.                                         *)
(***************************************************************************)
C2_StateIndexExactlyOneGreater ==
    (STVFDone("Account", ChainTransitionTypeStateChange)
        /\ TargetIn.StateIndex # TargetOut.StateIndex) =>
        /\ Accepted => IsSuccessor(TargetIn.StateIndex, TargetOut.StateIndex)
        /\ ~IsSuccessor(TargetIn.StateIndex, TargetOut.StateIndex) =>
              err.Kind = ErrInvalidAccountStateTransition

(***************************************************************************)
(* C3: a governance transition of an account (same state index, identical  *)
(* immutable features) is accepted when it changes the state controller    *)
(* and/or the governor, and is rejected with the invalid governance        *)
(* transition error whenever the amount, the native tokens, the state      *)
(* metadata or the foundry counter differ between the two sides.           *)
(***************************************************************************)
GovernanceTransitionDone ==
    /\ STVFDone("Account", ChainTransitionTypeStateChange)
    /\ TargetIn.StateIndex = TargetOut.StateIndex
    /\ TargetIn.ImmutableFeatures = TargetOut.ImmutableFeatures

FrozenOnGovernanceTransition(o) ==
    <<o.Amount, o.NativeTokens, o.StateMetadata, o.FoundryCounter>>

C4_GovernanceTransitionMutatesOnlyControllers ==
    (GovernanceTransitionDone /\ Accepted) =>
        /\ TargetIn.Mana = TargetOut.Mana
        /\ \A type \in {FeatureSender, FeatureBlockIssuer, FeatureStaking} :
              FeaturesOfType(TargetIn.Features, type)
                 = FeaturesOfType(TargetOut.Features, type)
        /\ [TargetOut EXCEPT !.StateController = TargetIn.StateController,
                             !.Governor = TargetIn.Governor,
                             !.Features = TargetIn.Features] = TargetIn

(***************************************************************************)
(* C5: every state change of an account (governance and state branch), of  *)
(* an NFT and of a foundry whose immutable features differ between the     *)
(* consumed and the created side is rejected, and the comparison comes     *)
(* before every other rule of the state change: the rejection is the one   *)
(* of the immutable features whatever else the transition violates.        *)
(***************************************************************************)
C5_ImmutableFeaturesCheckedFirst ==
    \A kind \in {"Account", "NFT", "Foundry"} :
        (STVFDone(kind, ChainTransitionTypeStateChange)
            /\ TargetIn.ImmutableFeatures # TargetOut.ImmutableFeatures) =>
            /\ ~Accepted
            /\ err.Why = "immutable features changed"

\* An account whose immutable features and amount are changed without a new
\* state index: the immutable features are reported, not the amount.
C5_Witness ==
    /\ STVFDone("Account", ChainTransitionTypeStateChange)
    /\ TargetIn.ImmutableFeatures # TargetOut.ImmutableFeatures
    /\ TargetIn.StateIndex = TargetOut.StateIndex
    /\ TargetIn.Amount # TargetOut.Amount
    /\ err = Err(ErrInvalidAccountStateTransition, "immutable features changed")

(***************************************************************************)
(* C6: in an accepted full state transition of an account (the state index *)
(* differs) the state controller and the governor are the same on both     *)
(* sides and the mutable metadata feature is either present and equal on   *)
(* both sides or absent on both.                                           *)
(***************************************************************************)
C6_StateTransitionKeepsControllersAndMetadata ==
    (STVFDone("Account", ChainTransitionTypeStateChange)
        /\ TargetIn.StateIndex # TargetOut.StateIndex
        /\ Accepted) =>
        /\ TargetIn.StateController = TargetOut.StateController
        /\ TargetIn.Governor = TargetOut.Governor
        /\ FeaturesOfType(TargetIn.Features, FeatureMetadata)
              = FeaturesOfType(TargetOut.Features, FeatureMetadata)

\* An accepted state transition of an account that carries a metadata feature.
C6_Witness ==
    /\ STVFDone("Account", ChainTransitionTypeStateChange)
    /\ IsSuccessor(TargetIn.StateIndex, TargetOut.StateIndex)
    /\ Accepted
    /\ FeaturesOfType(TargetOut.Features, FeatureMetadata) # {}
    /\ TargetIn.Features # TargetOut.Features

(***************************************************************************)
(* C7: a full state transition of an account is rejected if the created    *)
(* foundry counter is lower than the consumed one; when the counter grows  *)
(* by N > 0 it is rejected unless exactly N foundry outputs of the         *)
(* transaction are new and anchored to this account (foundries of other    *)
(* accounts and foundries that existed before are not counted).            *)
(***************************************************************************)
C7_FoundryCounterMatchesNewFoundries ==
    (STVFDone("Account", ChainTransitionTypeStateChange)
        /\ TargetIn.StateIndex # TargetOut.StateIndex
        /\ Accepted) =>
        /\ TargetOut.FoundryCounter >= TargetIn.FoundryCounter
        /\ TargetOut.FoundryCounter > TargetIn.FoundryCounter =>
              Cardinality(NewFoundriesOf(TargetOut.AccountID))
                 = TargetOut.FoundryCounter - TargetIn.FoundryCounter

\* An accepted transition whose counter grows by one while the outputs hold
\* one new foundry of the account and a foundry that is not counted.
C7_Witness ==
    /\ STVFDone("Account", ChainTransitionTypeStateChange)
    /\ Accepted
    /\ TargetOut.FoundryCounter = TargetIn.FoundryCounter + 1
    /\ Cardinality(NewFoundriesOf(TargetOut.AccountID)) = 1
    /\ Cardinality({i \in 1..Len(tx.Outputs) : tx.Outputs[i].Type = "Foundry"}) = 2

(***************************************************************************)
(* C8: the creation of a foundry is accepted only if its serial number s   *)
(* lies in the half-open interval [old counter, new counter) of the        *)
(* anchoring account: s = old counter is allowed, s = new counter is       *)
(* rejected.                                                               *)
(***************************************************************************)
FoundryGenesisDone ==
    /\ STVFDone("Foundry", ChainTransitionTypeGenesis)
    /\ AccountChainID(TargetOut.Account) \in DOMAIN InChains(tx)
    /\ AccountChainID(TargetOut.Account) \in DOMAIN OutChains(tx)

AnchorIn == InChains(tx)[AccountChainID(TargetOut.Account)].Output

AnchorOut == OutChains(tx)[AccountChainID(TargetOut.Account)]

C8_SerialInHalfOpenInterval ==
    (FoundryGenesisDone /\ Accepted) =>
        /\ AnchorIn.FoundryCounter <= TargetOut.SerialNumber
        /\ TargetOut.SerialNumber < AnchorOut.FoundryCounter

C10_NewFoundriesStrictlyIncreasing ==
    (DefaultExecuteDone /\ Accepted) =>
        \A a \in AccountIDs :
            \A i, j \in NewFoundriesOf(a) :
                i < j => tx.Outputs[i].SerialNumber < tx.Outputs[j].SerialNumber

(***************************************************************************)
(* C11: the creation of a foundry is rejected with the invalid foundry     *)
(* state transition error unless the account that anchors the new foundry  *)
(* appears in the transaction both as a consumed and as a created chain;   *)
(* an account that is only created, or only destroyed, in the transaction  *)
(* cannot anchor a new foundry.                                            *)
(***************************************************************************)
AnchorOnBothSides ==
    /\ AccountChainID(TargetOut.Account) \in DOMAIN InChains(tx)
    /\ AccountChainID(TargetOut.Account) \in DOMAIN OutChains(tx)

\* The genesis check of the token scheme of the new foundry passes.
TokenSchemeGenesisPasses ==
    /\ TargetOut.TokenScheme.MeltedTokens = 0
    /\ TargetOut.TokenScheme.MintedTokens <= TargetOut.TokenScheme.MaximumSupply
    /\ ValueOrBigInt0(tx.OutNativeTokens, target) = TargetOut.TokenScheme.MintedTokens

BlockIssuerFeaturesOf(o) == FeaturesOfType(o.Features, FeatureBlockIssuer)

\* No credit is supplied for the account, or the supplied credit is negative.
CreditMissingOrNegative(accountID) ==
    \/ accountID \notin DOMAIN tx.BIC
    \/ tx.BIC[accountID] < 0

(***************************************************************************)
(* C12: in every accepted state change of an account at creation slot t,   *)
(* governance transition or full state transition, if the consumed account *)
(* carries a block issuer feature whose expiry slot is >= t, the created   *)
(* account still carries a block issuer feature.                           *)
(***************************************************************************)
C12_UnexpiredBlockIssuerFeatureKept ==
    (STVFDone("Account", ChainTransitionTypeStateChange)
        /\ Accepted
        /\ \E f \in BlockIssuerFeaturesOf(TargetIn) : f.ExpirySlot >= tx.CreationTime) =>
        BlockIssuerFeaturesOf(TargetOut) # {}

(***************************************************************************)
(* C13: every state change of an account (governance or full) in which a   *)
(* block issuer feature exists on the consumed or the created side, and    *)
(* every destruction of an account that carries a block issuer feature, is *)
(* rejected with the invalid block issuer transition error when no block   *)
(* issuer credit is supplied for the account or the credit is negative.    *)
(* The formula states the rejection, which the error of the claim implies. *)
(***************************************************************************)
C13_BlockIssuerNeedsCredit ==
    /\ (STVFDone("Account", ChainTransitionTypeStateChange)
           /\ BlockIssuerFeaturesOf(TargetIn) \cup BlockIssuerFeaturesOf(TargetOut) # {}
           /\ CreditMissingOrNegative(TargetIn.AccountID)) => ~Accepted
    /\ (STVFDone("Account", ChainTransitionTypeDestroy)
           /\ BlockIssuerFeaturesOf(TargetIn) # {}
           /\ CreditMissingOrNegative(TargetIn.AccountID)) => ~Accepted

(***************************************************************************)
(* C14: in an accepted full state transition of an account with an active  *)
(* block issuer feature the mana attributed to the account on the consumed *)
(* side (its stored mana decayed to the creation slot plus its potential   *)
(* mana) does not leave the account: it is at most the stored mana of the  *)
(* created account plus the allotment to the account plus the stored mana  *)
(* of the Basic and NFT outputs mana-locked to the account until creation  *)
(* slot + liveness threshold.  A transaction that moves some of the        *)
(* account's mana into an unrelated output is rejected, and one that keeps *)
(* all of it on the account while other inputs burn mana is accepted.      *)
(***************************************************************************)
\* The mana of the consumed account at the creation slot of the transaction.
AccountManaIn ==
    LET input == InChains(tx)[target]
    IN  StoredManaWithDecay(input.Output.Mana, input.CreationTime, tx.CreationTime)
        + PotentialManaWithDecay(input.Output.Amount, input.CreationTime, tx.CreationTime)

\* The mana that stays with the account on the created side.
AccountManaKept ==
    TargetOut.Mana
    + (IF TargetIn.AccountID \in DOMAIN tx.Allotments
       THEN tx.Allotments[TargetIn.AccountID] ELSE 0)
    + LockedMana(SelectSeq(tx.Outputs, LAMBDA o : o.Type \in {"Basic", "NFT"}),
                 TargetIn.AccountID, tx.CreationTime + LivenessThreshold)

ActiveBlockIssuerTransitionDone ==
    /\ STVFDone("Account", ChainTransitionTypeStateChange)
    /\ TargetIn.StateIndex # TargetOut.StateIndex
    /\ \E f \in BlockIssuerFeaturesOf(TargetIn) : f.ExpirySlot >= tx.CreationTime

C14_AccountManaStays ==
    ActiveBlockIssuerTransitionDone =>
        /\ Accepted => AccountManaIn <= AccountManaKept
        /\ AccountManaIn <= AccountManaKept =>
              err.Why # "cannot move Mana off an account"

(***************************************************************************)
(* C15: whenever a transaction with creation slot t sets a block issuer    *)
(* expiry slot, a non-zero expiry on a new account or an expiry that       *)
(* differs from the one of the consumed account in a state change, the     *)
(* transaction is accepted only if the new expiry is >= t + liveness       *)
(* threshold: the expiry t + liveness threshold is accepted, any smaller   *)
(* one is rejected as set too soon.                                        *)
(***************************************************************************)
C15_NewExpiryNotTooSoon ==
    /\ (STVFDone("Account", ChainTransitionTypeGenesis) /\ Accepted) =>
           \A f \in BlockIssuerFeaturesOf(TargetOut) :
               f.ExpirySlot # 0 => f.ExpirySlot >= tx.CreationTime + LivenessThreshold
    /\ (STVFDone("Account", ChainTransitionTypeStateChange) /\ Accepted) =>
           \A f \in BlockIssuerFeaturesOf(TargetIn), g \in BlockIssuerFeaturesOf(TargetOut) :
               (g.ExpirySlot # 0 /\ g.ExpirySlot # f.ExpirySlot) =>
                   g.ExpirySlot >= tx.CreationTime + LivenessThreshold

(***************************************************************************)
(* C16: the destruction of an account that carries a block issuer feature  *)
(* whose expiry slot is >= the creation slot of the transaction is         *)
(* rejected whatever the block issuer credit is (positive, zero, negative  *)
(* or not supplied); the destruction of an account without a block issuer  *)
(* feature is always accepted by the account state machine.                *)
(***************************************************************************)
C16_DestructionNeedsExpiredBlockIssuer ==
    STVFDone("Account", ChainTransitionTypeDestroy) =>
        /\ (\E f \in BlockIssuerFeaturesOf(TargetIn) : f.ExpirySlot >= tx.CreationTime)
              => ~Accepted
        /\ BlockIssuerFeaturesOf(TargetIn) = {} => Accepted

\* The destruction of an account whose block issuer feature expires in the
\* creation slot, with a credit of zero, is rejected.
C16_Witness ==
    /\ STVFDone("Account", ChainTransitionTypeDestroy)
    /\ \E f \in BlockIssuerFeaturesOf(TargetIn) : f.ExpirySlot = tx.CreationTime
    /\ TargetIn.AccountID \in DOMAIN tx.BIC
    /\ tx.BIC[TargetIn.AccountID] = 0
    /\ err.Kind = ErrInvalidBlockIssuerTransition

(***************************************************************************)
(* C17: along any sequence of accepted state changes of one account the    *)
(* state index never decreases: a governance transition leaves it          *)
(* unchanged and a full state transition makes it strictly greater, for    *)
(* every value of the fixed-width unsigned state index including its       *)
(* maximum.                                                                *)
(***************************************************************************)
\* x < y as unsigned numbers.
IndexLess(x, y) == x[1] < y[1] \/ (x[1] = y[1] /\ x[2] < y[2])

C17_StateIndexNeverDecreases ==
    (STVFDone("Account", ChainTransitionTypeStateChange) /\ Accepted) =>
        \/ TargetIn.StateIndex = TargetOut.StateIndex
        \/ IndexLess(TargetIn.StateIndex, TargetOut.StateIndex)

(***************************************************************************)
(* Vocabulary of the claims about the transaction builder.                 *)
(***************************************************************************)
\* Build has returned a transaction.
BuildSucceeded == built.called /\ built.err = NoError

\* Build has returned an error and no transaction.
BuildFailed ==
    built.called /\ built.err # NoError /\ built.tx = NoTransaction

InputPositions == 1 .. Len(builder.Inputs)

\* The unlock address and the consumed output of the input at position j,
\* counted from 1.
OwnerAt(j) == builder.inputOwner[builder.Inputs[j]]

InputAt(j) == builder.inputs[builder.Inputs[j]]

UnlockTargets == {input.UnlockTarget : input \in BuilderTxInputs}

PositionsOwnedBy(a) == {j \in InputPositions : OwnerAt(j) = a}

Lowest(S) == CHOOSE j \in S : \A k \in S : j <= k

Highest(S) == CHOOSE j \in S : \A k \in S : j >= k

\* C18: in every transaction that Build returns, for every unlock address
\* that is not a chain address, the unlock at the position of the first input
\* owned by the address is a signature unlock, and the unlock at the position
\* of every later input owned by it is a reference unlock that refers to the
\* position of the first (positions counted from 0 in the unlocks).
C18_FirstSignsLaterRefer ==
    BuildSucceeded =>
        \A a \in UnlockTargets :
            (~IsChainAddress(a) /\ PositionsOwnedBy(a) # {}) =>
                LET i == Lowest(PositionsOwnedBy(a))
                IN  /\ Len(built.tx.Unlocks) = Len(builder.Inputs)
                    /\ built.tx.Unlocks[i] =
                           SignatureUnlock(Sign(built.signer, a).Signature)
                    /\ \A j \in PositionsOwnedBy(a) \ {i} :
                           built.tx.Unlocks[j] = ReferenceUnlock(i - 1)

\* A transaction was built from an input of one key followed by two inputs
\* of another key, and its third unlock refers to the second.
C18_Witness ==
    /\ BuildSucceeded
    /\ Len(builder.Inputs) = 3
    /\ OwnerAt(1) = Ed25519Address("addr2")
    /\ OwnerAt(2) = Ed25519Address("addr1")
    /\ OwnerAt(3) = Ed25519Address("addr1")
    /\ built.tx.Unlocks[2].Type = "Signature"
    /\ built.tx.Unlocks[3] = ReferenceUnlock(1)

\* The positions before j whose input consumes the chain output with the
\* address a.
ConsumedBefore(a, j) ==
    {p \in 1 .. (j - 1) :
        /\ IsChainOutput(InputAt(p))
        /\ Addressable(Chain(InputAt(p)))
        /\ ToAddress(Chain(InputAt(p))) = a}

\* The unlock of an input owned by the chain address a that refers to the
\* position ref.
ChainUnlock(a, ref) ==
    IF a.Kind = "Account" THEN AccountUnlock(ref) ELSE NFTUnlock(ref)

\* C19: whenever Build is called on inputs of which one is owned by an
\* account or NFT address and no earlier input consumes the chain output of
\* that address, Build returns an error and no transaction; in every
\* transaction that Build returns, an input owned by an account or NFT address
\* has an account unlock or an NFT unlock that refers to the position at
\* which the chain output was consumed before it (the last such position),
\* and the signer was never asked to sign for a chain address.
C19_ChainOwnedInputsNeedEarlierChain ==
    built.called =>
        /\ (\E j \in InputPositions :
                /\ IsChainAddress(OwnerAt(j))
                /\ ConsumedBefore(OwnerAt(j), j) = {}) => BuildFailed
        /\ \A k \in 1 .. Len(built.signed) : ~IsChainAddress(built.signed[k])
        /\ BuildSucceeded =>
              \A j \in InputPositions :
                  IsChainAddress(OwnerAt(j)) =>
                      /\ ConsumedBefore(OwnerAt(j), j) # {}
                      /\ built.tx.Unlocks[j] =
                            ChainUnlock(OwnerAt(j),
                                Highest(ConsumedBefore(OwnerAt(j), j)) - 1)

\* A transaction was built from an input of a key, the account output and
\* an input owned by the account, whose unlock is an account unlock that
\* refers to position 1.
C19_Witness ==
    /\ BuildSucceeded
    /\ Len(builder.Inputs) = 3
    /\ InputAt(1).Type = "Basic"
    /\ InputAt(2).Type = "Account"
    /\ OwnerAt(3) = AccountAddress("A1")
    /\ built.tx.Unlocks[3] = AccountUnlock(1)

Returned(fn) == call.fn = fn /\ returned.done

\* The exact sum of a work score and a list of work scores.
RECURSIVE ExactSum(_, _)
ExactSum(big, in) ==
    IF in = <<>> THEN big ELSE ExactSum(BigAdd(big, BigOf(Head(in))), Tail(in))

\* The exact value of one term of MaxBlockWork.
ExactTerm(f) ==
    IF ~f.mul THEN BigOf(f.score)
    ELSE IF f.div THEN BigDiv1024(BigMul(f.score, Uint32(0, f.times)))
         ELSE BigMul(f.score, Uint32(0, f.times))

RECURSIVE ExactTermsFrom(_, _)
ExactTermsFrom(factors, i) ==
    IF i > Len(factors) THEN BigOf(Uint32(0, 0))
    ELSE BigAdd(ExactTerm(factors[i]), ExactTermsFrom(factors, i + 1))

\* The exact product of a work score and an int fits a work score.
ProductFits(w, in) ==
    \/ w = Uint32(0, 0)
    \/ in.top = 0 /\ FitsUint32(BigMul(w, in.low))

\* C21: no work-score computation returns a silently wrapped value.  Add and
\* Multiply return an error whenever the exact sum or product does not fit
\* 32 bits (also when the multiplier itself does not fit), and a value they
\* return without error is the exact one; MaxBlockWork returns the exact sum
\* of its terms or an error.
C21_NoSilentWrap ==
    /\ Returned("Add") =>
          /\ ~FitsUint32(ExactSum(BigOf(call.w), call.in)) =>
                returned.err # NoError
          /\ returned.err = NoError =>
                BigOf(returned.value) = ExactSum(BigOf(call.w), call.in)
    /\ Returned("Multiply") =>
          /\ ~ProductFits(call.w, call.in) => returned.err # NoError
          /\ (returned.err = NoError /\ call.in.top = 0) =>
                BigOf(returned.value) = BigMul(call.w, call.in.low)
    /\ (Returned("MaxBlockWork") /\ returned.err = NoError) =>
          BigOf(returned.value) =
              ExactTermsFrom(MaxBlockWorkFactors(call.w), 1)

\* C22: the alias registry never influences the key of an account identifier.
\* After every sequence of RegisterAlias and UnregisterAlias calls the key of
\* each identifier is the one it has under an empty registry, and two
\* different identifiers have different keys.
C22_KeyIgnoresAliases ==
    /\ \A a \in AliasedAccountIDs :
          AccountIDKey(a, accountIDAliases) = AccountIDKey(a, EmptyMap)
    /\ \A a, b \in AliasedAccountIDs :
          a # b => AccountIDKey(a, accountIDAliases)
                      # AccountIDKey(b, accountIDAliases)

\* C25: a feature list that starts with at most one feature per type keeps
\* at most one feature per type under Upsert and Remove (Set returns no
\* error).  After Upsert(f) the list holds f as its only feature of the type
\* of f and every other feature at the position and with the value it had;
\* Remove(t) returns true exactly when a feature of type t was present, and
\* the list it leaves is the list before without that feature.
C25_MutatorsKeepFeaturesUnique ==
    /\ FeaturesSetError(featureList) = NoError
    /\ featureCall.op = "Upsert" =>
          /\ \A i \in 1 .. Len(featureList) :
                featureList[i].Type = featureCall.type =>
                    featureList[i] = featureCall.feature
          /\ \E i \in 1 .. Len(featureList) : featureList[i] = featureCall.feature
          /\ \A i \in 1 .. Len(featureCall.before) :
                featureCall.before[i].Type # featureCall.type =>
                    featureList[i] = featureCall.before[i]
          /\ Len(featureList) =
                Len(featureCall.before)
                  + (IF \E i \in 1 .. Len(featureCall.before) :
                            featureCall.before[i].Type = featureCall.type
                     THEN 0 ELSE 1)
    /\ featureCall.op = "Remove" =>
          /\ featureCall.removed =
                (\E i \in 1 .. Len(featureCall.before) :
                    featureCall.before[i].Type = featureCall.type)
          /\ featureList =
                SelectSeq(featureCall.before,
                          LAMBDA f : f.Type # featureCall.type)

\* Upsert has replaced the feature in the middle of a list of three by
\* another feature of its type.
C25_Witness ==
    /\ featureCall.op = "Upsert"
    /\ Len(featureCall.before) = 3
    /\ featureCall.before[2].Type = featureCall.type
    /\ featureCall.before[2] # featureCall.feature
    /\ featureList[2] = featureCall.feature

\* C23: when Build returns an output after BlockIssuerTransition (resp.
\* StakingTransition) was called on a builder whose output had no block
\* issuer (resp. staking) feature, and the builder has set no feature of
\* that type itself since, the output carries the feature with the values
\* given through the transition.
C23_TransitionSetsTheFeatureItCreates ==
    (accountBuilt.called /\ accountBuilt.err = NoError) =>
        /\ (blockIssuerTransition.created /\ ~blockIssuerTransition.replaced)
              => FeatureOfType(accountBuilt.output.Features,
                               FeatureBlockIssuer)
                    = blockIssuerTransition.feature
        /\ (stakingTransition.created /\ ~stakingTransition.replaced)
              => FeatureOfType(accountBuilt.output.Features, FeatureStaking)
                    = stakingTransition.feature

\* The byte with exactly the bits of the flags that are set.
RECURSIVE FlagsByte(_, _)
FlagsByte(flags, k) ==
    IF k = 0 THEN 0
    ELSE FlagsByte(flags, k - 1) + (IF flags[k] THEN Pow2(k - 1) ELSE 0)

\* C24: the address that RestrictedEd25519AddressFromPubKey returns for
\* eight flags answers its k-th capability query with the k-th flag, its
\* bitmask is the single byte with bit k set for each flag k that is set,
\* or empty when no flag is set, and its size is 35 or 34 accordingly.
C24_CapabilitiesFollowTheFlags ==
    Returned("RestrictedEd25519AddressFromPubKey") =>
        LET addr == returned.value
            none == \A k \in 1 .. 8 : ~call.flags[k]
        IN  /\ \A k \in 1 .. 8 : CapabilityChecks(addr)[k] = call.flags[k]
            /\ addr.Capabilities
                  = IF none THEN <<>> ELSE <<FlagsByte(call.flags, 8)>>
            /\ RestrictedEd25519AddressSize(addr) = IF none THEN 34 ELSE 35

C24_Witness ==
    /\ Returned("RestrictedEd25519AddressFromPubKey")
    /\ call.flags = <<TRUE, FALSE, FALSE, FALSE, FALSE, FALSE, TRUE, FALSE>>
    /\ returned.value.Capabilities = <<65>>
    /\ CanReceiveNFTOutputs(returned.value)
    /\ ~CanReceiveDelegationOutputs(returned.value)

\* C27: the clone of a restricted address is equal to the address and
\* answers the capability queries as the address does.
C27_CloneIsEqual ==
    Returned("Clone") =>
        /\ RestrictedAddressEqual(returned.value, call.addr)
        /\ CapabilityChecks(returned.value) = CapabilityChecks(call.addr)

(***************************************************************************)
(* C26: the block issuer check of an account ends with a verdict, accept   *)
(* or a violation, for every full state transition, and never with a       *)
(* crash; so does the full state transition that adds a block issuer       *)
(* feature to an account that had none, with a credit of at least zero.    *)
(***************************************************************************)
\* The full state transition of an account has reached its block issuer
\* check: the rules of accountStateSTVF before it are met.
BlockIssuerCheckReached ==
    /\ STVFDone("Account", ChainTransitionTypeStateChange)
    /\ TargetIn.StateIndex # TargetOut.StateIndex
    /\ err.Kind # ErrInvalidAccountStateTransition

C26_BlockIssuerCheckGivesVerdict ==
    BlockIssuerCheckReached => err.Kind # "panic"

\* The unlock addresses of the inputs that are not chain addresses.
NonChainOwners ==
    {OwnerAt(j) : j \in {p \in InputPositions : ~IsChainAddress(OwnerAt(p))}}

\* C28: every transaction that Build returns has one unlock per input of
\* the essence, the unlock at the position of an input being the one for
\* the unlock address of that input; every reference, account and NFT
\* unlock refers to a lower position than its own; every reference unlock
\* refers to the position of a signature unlock; and the signer was asked
\* for as many signatures as there are distinct unlock addresses that are
\* not chain addresses.
C28_UnlocksWellFormed ==
    BuildSucceeded =>
        LET unlocks == built.tx.Unlocks
        IN  /\ Len(unlocks) = Len(built.tx.Essence.Inputs)
            /\ built.tx.Essence.Inputs = builder.Inputs
            /\ \A i \in 1 .. Len(unlocks) :
                  /\ unlocks[i].Type =
                        CASE OwnerAt(i).Kind = "Account" -> "Account"
                          [] OwnerAt(i).Kind = "NFT" -> "NFT"
                          [] Lowest(PositionsOwnedBy(OwnerAt(i))) = i ->
                                "Signature"
                          [] OTHER -> "Reference"
                  /\ unlocks[i].Type = "Signature" =>
                        unlocks[i].Signature
                           = Sign(built.signer, OwnerAt(i)).Signature
                  /\ unlocks[i].Type # "Signature" =>
                        unlocks[i].Reference < i - 1
                  /\ unlocks[i].Type = "Reference" =>
                        unlocks[unlocks[i].Reference + 1].Type = "Signature"
            /\ Len(built.signed) = Cardinality(NonChainOwners)

\* A transaction was built from three inputs: one of a key, a second one of
\* the same key, whose unlock refers to the first, and the account output
\* of another key, for which the signer was asked a second time.
C28_Witness ==
    /\ BuildSucceeded
    /\ Len(builder.Inputs) = 3
    /\ built.tx.Unlocks[1].Type = "Signature"
    /\ built.tx.Unlocks[2] = ReferenceUnlock(0)
    /\ built.tx.Unlocks[3].Type = "Signature"
    /\ InputAt(3).Type = "Account"
    /\ Len(built.signed) = 2

(***************************************************************************)
(* C29: when the destruction of the consumed account at the creation slot  *)
(* of the transaction would be rejected because of its block issuer        *)
(* feature (expiry slot 0, or expiry slot not below the creation slot), no *)
(* accepted state change of the account, governance transition or full     *)
(* state transition, creates an account whose destruction at that slot is  *)
(* accepted.                                                               *)
(***************************************************************************)
\* The verdict on the destruction of the account output o at the creation
\* slot of the transaction.
DestructionVerdict(o) ==
    accountDestructionValid([InChains(tx)[target] EXCEPT !.Output = o], tx)

\* The destruction of the account output o is rejected for its block
\* issuer feature.
DestructionBlockedByBlockIssuer(o) ==
    /\ \E f \in BlockIssuerFeaturesOf(o) :
          f.ExpirySlot = 0 \/ f.ExpirySlot >= tx.CreationTime
    /\ DestructionVerdict(o) # NoError

C29_StateChangeKeepsDestructionBlocked ==
    (/\ STVFDone("Account", ChainTransitionTypeStateChange)
     /\ Accepted
     /\ DestructionBlockedByBlockIssuer(TargetIn)) =>
        DestructionVerdict(TargetOut) # NoError

(***************************************************************************)
(* C30: the creation of a foundry whose anchoring account has the same     *)
(* foundry counter on the consumed and on the created side is rejected,    *)
(* whatever the serial number of the foundry, while the full state         *)
(* transition of that account is not rejected for the number of its new    *)
(* foundries.                                                              *)
(***************************************************************************)
C30_NoFoundryWithoutCounterChange ==
    /\ (FoundryGenesisDone
           /\ AnchorIn.FoundryCounter = AnchorOut.FoundryCounter) => ~Accepted
    /\ (STVFDone("Account", ChainTransitionTypeStateChange)
           /\ TargetIn.StateIndex # TargetOut.StateIndex
           /\ TargetIn.FoundryCounter = TargetOut.FoundryCounter
           /\ NewFoundriesOf(TargetOut.AccountID) # {}) =>
          err # Err(ErrInvalidAccountStateTransition, "new foundries count")

\* The creation of a foundry with serial number 2 is rejected for its
\* serial number in a transaction whose account keeps the counter 1.
C30_Witness ==
    /\ FoundryGenesisDone
    /\ AnchorIn.FoundryCounter = 1
    /\ AnchorOut.FoundryCounter = 1
    /\ TargetOut.SerialNumber = 2
    /\ err.Kind = ErrInvalidFoundryStateTransition

====
